---- MODULE Spec2Model ----
(***************************************************************************)
(* State-machine model of the compute-dispatch core of the wgpu backend:   *)
(* the deferred command queue with its metadata array (get_meta and the    *)
(* enqueue helpers), the flush planner (prepare, set_buffers,              *)
(* get_command_buffer, flush_gpu_command / flush_gpu_command_async) and    *)
(* the buffer references with the storage pool they are bound to.          *)
(*                                                                         *)
(* Source: candle-core/src/wgpu_backend/wgpu_functions/{mod.rs, conv2d.rs, *)
(* convert/mod.rs}.  cache.rs, device.rs and the unary/binary/copy         *)
(* encoders are not part of the sources at hand; the parts of them the     *)
(* planner depends on are modelled from the specification and are marked   *)
(* "specification-modelled" where they are defined.                        *)
(***************************************************************************)
EXTENDS Integers, Sequences, FiniteSets, TLC

(***************************************************************************)
(* Bounds of the model.                                                    *)
(***************************************************************************)
\* number of buffer references the callers hold at start
NumRefs == 3
\* most dispatches the callers queue before they flush (specification Spec)
MaxQueue == 2
\* most dispatches the callers queue before they flush (specification SpecBatch)
MaxBatch == 3
\* non-empty flushes the callers run (specifications Spec and SpecBatch)
MaxFlushes == 1
\* non-empty flushes the callers run (specification SpecBudget)
MaxBudgetFlushes == 2
\* encoders are called only while the aligned end of the meta array is below
\* this number of words (failed encoder calls grow the array without queueing)
MaxMetaWords == 40
\* number of values of the buffer-mapping signature (range of the hash)
HashMod == 2
\* dispatches queued before an encoder is called (specification SpecMeta)
MaxMetaQueue == 2
\* encoders are called only while the aligned end of the meta array is below
\* this number of words (specification SpecMeta)
MaxUploadWords == 128
\* dispatches queued before an encoder is called (specification SpecEncode)
MaxEncode == 2
\* encoders are called only while the aligned end of the meta array is below
\* this number of words (specification SpecEncode)
MaxEncodeWords == 24

(***************************************************************************)
(* Program constants.                                                      *)
(***************************************************************************)
\* mod.rs:63
MAX_DISPATCH_SIZE == 65535
\* mod.rs:115
WORKGROUP_SIZE == 64
\* device.rs (specification-modelled).  The specification leaves the value
\* implementation-defined; the model takes a small multiple-of-32 value
\* above the 3 * 256 bytes that set_buffers reserves, so that the metadata
\* cap of set_buffers fires with a queue of MaxQueue dispatches.
META_BUFFER_SIZE == 800
\* device.rs (specification-modelled): "device-tuned scalar".
MAX_WORKLOAD_SIZE == 1048576
\* device limit read at mod.rs:197 (bytes); 32 is the smallest value a
\* WebGPU device may report.
min_storage_buffer_offset_alignment == 32

Refs == 1 .. NumRefs
BufIds == 1 .. NumRefs
\* Option::None for a storage slot
None == 0

\* byte size of a buffer reference (fixed at creation, BufferReference.size)
BufferSize(r) == IF r % 2 = 1 THEN 8 ELSE 4

\* element count of a buffer reference's tensor (F32 or U32 elements)
ElemCount(r) == BufferSize(r) \div 4
\* sizes the callers pass to queue_convert_u32_to_u8: half the workload cap,
\* just above the cap, and one above the largest 1-D grid
ConvertSizes ==
    {2 * MAX_WORKLOAD_SIZE, 4 * MAX_WORKLOAD_SIZE + 4,
     MAX_DISPATCH_SIZE * WORKGROUP_SIZE * 4 + 1}
DTypes == {"F32", "F16"}
\* element counts the callers hand to the element-wise encoders: none, one
\* workgroup and one element more, the largest 1-D grid and one element more
BigLengths ==
    {0, WORKGROUP_SIZE, WORKGROUP_SIZE + 1, MAX_DISPATCH_SIZE * WORKGROUP_SIZE,
     MAX_DISPATCH_SIZE * WORKGROUP_SIZE + 1}
\* element counts the callers hand to the byte-packed converts
PackedSizes == {0, 5, 257, 1024}
\* element counts over the whole range of u32, the upper half written as the
\* negative integers congruent to them: the largest 1-D grid and one element
\* more, 2^32 - 64, 2^32 - 63 and 2^32 - 1
WideLengths ==
    {WORKGROUP_SIZE, MAX_DISPATCH_SIZE * WORKGROUP_SIZE,
     MAX_DISPATCH_SIZE * WORKGROUP_SIZE + 1, -64, -63, -1}
\* input and kernel sizes of the transposed convolutions
TransposeSizes == {1, 8}
TransposeKernels == {1, 3}

VARIABLES
    \* QueueBuffer (dev.command_queue)
    command_queue,      \* Vec<MlQueue>
    meta,               \* MetaArray: Vec<u32>
    current_meta,       \* QueueBuffer.current_meta
    \* buffer references
    storage,            \* BufferReference.storage: None or a CachedBuffer id
    referenced,         \* BufferReference.is_referenced_by_storage
    ext,                \* strong handles held outside the queue (callers)
    \* ModelCache (dev.cache)
    buffers,            \* CachedBuffer id -> [size, state]
    max_memory_allowed, \* cache.buffers.max_memory_allowed
    mapping,            \* cache.mappings: current buffer-mapping signature
    \* locals of the flush in progress
    pc,                 \* "idle", a step of the flush ("set_buffers", "get_command_buffer",
                        \* "finish") or the panic that ended the program ("panic_extent",
                        \* "panic_overflow", "panic_prepare", "panic_meta", "panic_read")
    mode,               \* the flush variant that runs: "blocking", "async", or the
                        \* same inside synchronize / synchronize_async; else "none"
    index,
    start_index,
    fl_current_meta,    \* current_meta local of the flush loop
    last_meta,
    total_workload,     \* local of set_buffers
    cache_limit,        \* local of set_buffers
    \* the device and what outlives a flush
    created,            \* sizes of the buffer references made by
                        \* cache.create_buffer_reference that are alive, in the
                        \* order of creation; the k-th has the number NumRefs + k
    last_buffer,        \* QueueBuffer.last_buffer: None or a CachedBuffer id
    in_flight,          \* command buffers submitted to dev.queue and not yet completed
    readback,           \* the last result of read_data_from_gpu_async: the reference
                        \* read and the buffer its bytes came from
    probe_maps,         \* how often dev.staging_probe_buffer was mapped since the
                        \* last flush began
    \* the two mutexes, as far as a call holds one from one step to the next
    queue_guard,        \* dev.command_queue: NoThread or the thread whose encoder
                        \* call holds the guard that get_meta returned (a flush
                        \* holds the mutex from its entry to its exit: pc # "idle")
    cache_guard,        \* dev.cache: "free" or "queue_conv2d", the call that holds
                        \* the guard over its strided copy (the flush takes and
                        \* releases the mutex inside a step)
    encoder,            \* thread -> the encoder call it is in: the words
                        \* it has still to add and the dispatch it will push
    \* observation
    submitted,          \* command buffers submitted by the flush in progress
    most_needed,        \* most_needed_storage of the running flush's prepare
    flushes,            \* non-empty flushes that have returned
    op                  \* the call that made the last step: "flush" for a step of a
                        \* flush, "synchronize" for the return of synchronize, "err"
                        \* for an encoder call that returned Err, else "call"

qvars == <<command_queue, meta, current_meta>>
rvars == <<storage, referenced, ext>>
cvars == <<buffers, max_memory_allowed, mapping>>
fvars == <<mode, index, start_index, fl_current_meta, last_meta, total_workload, cache_limit>>
tvars == <<queue_guard, cache_guard, encoder>>
dvars == <<created, last_buffer, in_flight, readback, probe_maps, tvars>>
vars == <<command_queue, meta, current_meta, storage, referenced, ext, buffers,
          max_memory_allowed, mapping, pc, mode, index, start_index,
          fl_current_meta, last_meta, total_workload, cache_limit, submitted,
          most_needed, flushes, op, created, last_buffer, in_flight, readback,
          probe_maps, queue_guard, cache_guard, encoder>>

Min(a, b) == IF a < b THEN a ELSE b

RECURSIVE Zeros(_)
Zeros(n) == IF n <= 0 THEN <<>> ELSE <<0>> \o Zeros(n - 1)

RECURSIVE SumSeq(_)
SumSeq(s) == IF s = <<>> THEN 0 ELSE Head(s) + SumSeq(Tail(s))

\* number of times r occurs in the sequence s
Occurrences(s, r) == Cardinality({i \in 1 .. Len(s) : s[i] = r})

(***************************************************************************)
(* Bind groups and dispatches.                                             *)
(***************************************************************************)
\* DispatchedBindgroup::BindgroupReference(BindgroupN(dest, inputs.., flag16))
BindGroupReference(refs, f16) ==
    [tag |-> "BindgroupReference", refs |-> refs, f16 |-> f16, bufs |-> <<>>]
\* DispatchedBindgroup::CachedBindgroup over concrete buffers
CachedBindgroup(bufs, f16) ==
    [tag |-> "CachedBindgroup", refs |-> <<>>, f16 |-> f16, bufs |-> bufs]
\* DispatchedBindgroup::None
BindgroupNone == [tag |-> "None", refs |-> <<>>, f16 |-> FALSE, bufs |-> <<>>]

create_bind_group_input0(dest) == BindGroupReference(<<dest>>, FALSE)
create_bind_group_input1(dest, in1) == BindGroupReference(<<dest, in1>>, FALSE)
create_bind_group_input2(dest, in1, in2) == BindGroupReference(<<dest, in1, in2>>, FALSE)

\* PipelineType(Pipelines::kind(dtype, function), const id, OpIsInplaceable)
PipelineType(kind, dtype, i1, i2) ==
    [kind |-> kind, dtype |-> dtype, input1_inplaceable |-> i1, input2_inplaceable |-> i2]

\* Arc::strong_count of a buffer reference: the callers' handles plus one per
\* occurrence in a bind-group reference that is still queued
StrongCountIn(queue, e, r) ==
    e[r] + SumSeq([i \in 1 .. Len(queue) |-> Occurrences(queue[i].bindgroup.refs, r)])
StrongCount(r) == StrongCountIn(command_queue, ext, r)

(***************************************************************************)
(* MetaPacker.                                                             *)
(***************************************************************************)
next_divisible_by_n(value, n) ==
    IF value % n = 0 THEN value ELSE value + (n - (value % n))

\* a get_meta that starts the parameters where the array ends
get_meta_offset_unaligned == Len(meta)
\* get_meta: the aligned offset and the zero-padded meta array
get_meta_offset ==
    next_divisible_by_n(Len(meta), min_storage_buffer_offset_alignment \div 4)
get_meta_array == meta \o Zeros(get_meta_offset - Len(meta))

(***************************************************************************)
(* Enqueue helpers (mod.rs:140-178, 881-959).                              *)
(***************************************************************************)
\* a guard that forgets the x extent
ExtentTooBigYZ(x, y, z) ==
    y > MAX_DISPATCH_SIZE \/ z > MAX_DISPATCH_SIZE
\* the guard of the panic in enqueue_workgroups_extra
ExtentTooBig(x, y, z) ==
    y > MAX_DISPATCH_SIZE \/ z > MAX_DISPATCH_SIZE \/ x > MAX_DISPATCH_SIZE

\* MlQueue::Dispatch(MlQueueDispatch {..}) as enqueue_workgroups_extra builds it
MlQueueDispatch(pipeline, bind_group, x, y, z, cm, workload_size) ==
    [x |-> x, y |-> y, z |-> z, pipeline |-> pipeline, pipeline_cached |-> FALSE,
     bindgroup |-> bind_group, meta |-> cm, workload_size |-> workload_size]

\* One encoder call from get_meta to enqueue_workgroups_extra, under the
\* command-queue guard that get_meta returns: the meta array is padded to the
\* aligned offset, the encoder's words are added, and the dispatch is pushed
\* unless an extent is above MAX_DISPATCH_SIZE (panic while holding the guard).
enqueue_workgroups_extra(words, pipeline, bind_group, x, y, z, workload_size) ==
    /\ meta' = get_meta_array \o words
    /\ current_meta' = get_meta_offset
    /\ IF ExtentTooBig(x, y, z)
       THEN /\ command_queue' = command_queue
            /\ pc' = "panic_extent"
       ELSE /\ command_queue' = Append(command_queue,
                MlQueueDispatch(pipeline, bind_group, x, y, z, get_meta_offset, workload_size))
            /\ pc' = pc
    /\ op' = "call"
    /\ UNCHANGED dvars
    /\ UNCHANGED <<rvars, cvars, fvars, submitted, most_needed, flushes>>

\* Unsigned arithmetic.  A u32 (usize) value is written as an integer
\* congruent to it modulo 2^32 (2^64): a value of the upper half of the
\* range is written as the negative integer congruent to it, 2^32 - 1 as -1,
\* so that the wrapping sum and difference are the sum and difference of the
\* integers, and "as u32" of a usize keeps the integer; a u32 widened to
\* usize (the workload_size of enqueue_big) stays in its u32 form.
\* a + b, for b >= 0, leaves the range of the type
add_overflows(a, b) == a < 0 /\ a + b >= 0
\* a - b, for a and b of the lower half, leaves the range of the type
sub_overflows(a, b) == a >= 0 /\ b >= 0 /\ a < b
\* the quotient v / n of the u32 v by a power of two n <= 65536
u32_div(v, n) ==
    IF v >= 0 THEN v \div n ELSE (65536 \div n) * 65536 + (v \div n)

\* an arithmetic overflow in a build with overflow checks: the encoder
\* panics after it has added its words, under the command-queue guard
overflow_panic(words) ==
    /\ meta' = get_meta_array \o words
    /\ current_meta' = get_meta_offset
    /\ command_queue' = command_queue
    /\ pc' = "panic_overflow"
    /\ op' = "call"
    /\ UNCHANGED dvars
    /\ UNCHANGED <<rvars, cvars, fvars, submitted, most_needed, flushes>>

\* (length + WORKGROUP_SIZE - 1) / WORKGROUP_SIZE in wrapping u32 arithmetic
workgroups(length) == u32_div(length + WORKGROUP_SIZE - 1, WORKGROUP_SIZE)

\* a 1-D tiling that takes the length for the number of workgroups
enqueue_extra_per_workgroup(words, pipeline, bind_group, length, workload_size) ==
    enqueue_workgroups_extra(words, pipeline, bind_group, length, 1, 1, workload_size)
\* enqueue_extra: 1-D tiling by WORKGROUP_SIZE; where length + 63 leaves u32
\* the build decides between the panic and the wrapped sum
enqueue_extra(words, pipeline, bind_group, length, workload_size) ==
    IF add_overflows(length, WORKGROUP_SIZE - 1)
    THEN \E overflow_checks \in BOOLEAN :
            IF overflow_checks THEN overflow_panic(words)
            ELSE enqueue_workgroups_extra(words, pipeline, bind_group,
                     workgroups(length), 1, 1, workload_size)
    ELSE enqueue_workgroups_extra(words, pipeline, bind_group,
             workgroups(length), 1, 1, workload_size)

enqueue_big_x(length) == Min(workgroups(length), 65535)
\* a y extent that rounds down and adds one
enqueue_big_y_floor(length) ==
    (((length + WORKGROUP_SIZE - 1) \div WORKGROUP_SIZE) \div 65535) + 1
enqueue_big_y(length) == (workgroups(length) + 65534) \div 65535

\* enqueue_big_extra: splits across y when x exceeds 65535; where
\* length + 63 leaves u32 the build decides between the panic and the
\* wrapped sum
enqueue_big_extra(words, pipeline, bind_group, length) ==
    IF add_overflows(length, WORKGROUP_SIZE - 1)
    THEN \E overflow_checks \in BOOLEAN :
            IF overflow_checks THEN overflow_panic(words)
            ELSE enqueue_workgroups_extra(words, pipeline, bind_group,
                     enqueue_big_x(length), enqueue_big_y(length), 1, length)
    ELSE enqueue_workgroups_extra(words, pipeline, bind_group,
             enqueue_big_x(length), enqueue_big_y(length), 1, length)

\* an encoder can be called: no flush is running, the bounds leave room
CanEncode(cap) ==
    /\ pc = "idle"
    /\ Len(command_queue) < cap
    /\ get_meta_offset < MaxMetaWords

\* the caller holds a handle of each reference it passes; the output of an
\* op is a reference of its own, never one of the op's inputs
Held(rs) == \A r \in rs : ext[r] >= 1

(***************************************************************************)
(* Op encoders.                                                            *)
(***************************************************************************)
\* get_dtype: Ok for U8, U32, F32
get_dtype_ok(dtype) == dtype \in {"U8", "U32", "F32"}

\* queue_unary_from_buffer_op on a contiguous input (unary.rs,
\* specification-modelled): one meta parameter set, Bindgroup1(dest, input),
\* one element per element of dest
QueueUnary(cap) ==
    \E dest \in Refs, input \in Refs, inplaceable \in BOOLEAN :
        /\ CanEncode(cap)
        /\ Held({dest, input})
        /\ dest # input
        /\ enqueue_big_extra(<<ElemCount(dest)>>,
               PipelineType("UnaryFromBufferContiguous", "F32", inplaceable, FALSE),
               create_bind_group_input1(dest, input), ElemCount(dest))

\* queue_binary_buffer_from_buffer with both inputs contiguous (binary.rs,
\* specification-modelled): Bindgroup2(dest, input1, input2)
QueueBinary(cap) ==
    \E dest \in Refs, input1 \in Refs, input2 \in Refs, i1 \in BOOLEAN, i2 \in BOOLEAN :
        /\ CanEncode(cap)
        /\ Held({dest, input1, input2})
        /\ dest \notin {input1, input2}
        /\ enqueue_big_extra(<<ElemCount(dest)>>,
               PipelineType("BinaryBufferFromBufferContiguousBoth", "F32", i1, i2),
               create_bind_group_input2(dest, input1, input2), ElemCount(dest))

\* queue_copy (copy.rs, specification-modelled): Bindgroup1(dest, input)
QueueCopy(cap) ==
    \E dest \in Refs, input \in Refs, inplaceable \in BOOLEAN :
        /\ CanEncode(cap)
        /\ Held({dest, input})
        /\ dest # input
        /\ enqueue_big_extra(<<ElemCount(dest)>>,
               PipelineType("Copy", "F32", inplaceable, FALSE),
               create_bind_group_input1(dest, input), ElemCount(dest))

\* queue_convert_u32_to_u8 (convert/mod.rs:77-100); the workload estimate of
\* the dispatch is the length handed to enqueue
QueueConvertU32ToU8(cap) ==
    \E dest \in Refs, input \in Refs, size \in ConvertSizes :
        /\ CanEncode(cap)
        /\ Held({dest, input})
        /\ dest # input
        /\ enqueue_extra(<<0, size>>,
               PipelineType("ConvertU32ToU8", "U32", FALSE, FALSE),
               create_bind_group_input1(dest, input), (size + 3) \div 4,
               (size + 3) \div 4)

\* ParamsConv1D of the calls the model makes, with a contiguous input
\* [b_size, c_in, l_in] and kernel [c_out, c_in, k_size]
Conv1dParams ==
    [b_size |-> 1, c_in |-> 1, c_out |-> 2, l_in |-> 8, k_size |-> 3,
     padding |-> 1, stride |-> 1, dilation |-> 1]
\* ParamsConv1D::l_out (conv.rs, specification-modelled)
l_out(p) ==
    ((p.l_in + 2 * p.padding - p.dilation * (p.k_size - 1) - 1) \div p.stride) + 1

\* the 18 meta words queue_conv1d adds (conv2d.rs:175-193)
conv1d_meta(p) ==
    <<p.b_size, p.c_in, p.k_size,
      1, p.k_size, p.c_in * p.k_size, 0,
      p.l_in, l_out(p) * p.c_out, l_out(p), l_out(p),
      p.c_in * p.l_in, p.l_in, 1,
      p.padding, p.stride, p.dilation, 0>>

\* queue_conv1d (conv2d.rs:149-212): the meta words are added before
\* get_dtype is asked; an unsupported dtype returns Err from there
queue_conv1d ==
    \E dest \in Refs, input1 \in Refs, input2 \in Refs, dtype \in DTypes :
        LET p == Conv1dParams IN
        /\ Held({dest, input1, input2})
        /\ dest \notin {input1, input2}
        /\ IF get_dtype_ok(dtype)
           THEN enqueue_workgroups_extra(conv1d_meta(p),
                    PipelineType("Conv1d", dtype, FALSE, FALSE),
                    create_bind_group_input2(dest, input1, input2),
                    (l_out(p) + 63) \div 64, p.c_out, 1,
                    l_out(p) * p.c_out * p.b_size * (p.c_out * p.c_in * p.k_size))
           ELSE /\ meta' = get_meta_array \o conv1d_meta(p)
                /\ current_meta' = get_meta_offset
                /\ op' = "err"
                /\ UNCHANGED dvars
                /\ UNCHANGED <<command_queue, pc, rvars, cvars, fvars, submitted, most_needed, flushes>>

\* queue_conv1d called while the bounds leave room
QueueConv1d(cap) == CanEncode(cap) /\ queue_conv1d

(***************************************************************************)
(* Encoders on the queue buffer as a value: an encoder that calls another  *)
(* encoder (conv2d.rs:21-31) works on what the first one left.             *)
(***************************************************************************)
\* an encoder can be called: no flush is running, fewer than cap dispatches
\* are queued and the aligned end of the meta array is below words
CanEncodeWithin(cap, words) ==
    /\ pc = "idle"
    /\ Len(command_queue) < cap
    /\ get_meta_offset < words

\* queue_convert_u32_to_u8 and queue_convert_f32_to_u8 (convert/mod.rs:77-125)
\* over size elements
QueueConvertToU8(cap, words) ==
    \E dest \in Refs, input \in Refs, start_offset \in {0, 4}, size \in PackedSizes,
       kind \in {"ConvertU32ToU8", "ConvertF32ToU8"} :
        /\ CanEncodeWithin(cap, words)
        /\ Held({dest, input})
        /\ dest # input
        /\ enqueue_extra(<<start_offset, size>>,
               PipelineType(kind, IF kind = "ConvertU32ToU8" THEN "U32" ELSE "F32",
                            FALSE, FALSE),
               create_bind_group_input1(dest, input), (size + 3) \div 4,
               (size + 3) \div 4)

\* an element-wise encoder over a contiguous tensor of length elements, one
\* of lengths (unary.rs, specification-modelled): the length is its
\* parameter and enqueue_big tiles it
queue_unary_length(cap, words, lengths) ==
    \E dest \in Refs, input \in Refs, length \in lengths :
        /\ CanEncodeWithin(cap, words)
        /\ Held({dest, input})
        /\ dest # input
        /\ enqueue_big_extra(<<length>>,
               PipelineType("UnaryFromBufferContiguous", "F32", FALSE, FALSE),
               create_bind_group_input1(dest, input), length)

QueueUnaryLength(cap, words) == queue_unary_length(cap, words, BigLengths)

\* queue_convert_u32_to_f32 (convert/mod.rs:8-27) on a contiguous layout of
\* one dimension: the layout is the parameter set and enqueue tiles
\* elem_count() as u32
queue_convert_u32_to_f32(cap, words) ==
    \E dest \in Refs, input \in Refs, length \in WideLengths :
        /\ CanEncodeWithin(cap, words)
        /\ Held({dest, input})
        /\ dest # input
        /\ enqueue_extra(<<1, length, 1, 0>>,
               PipelineType("ConvertU32ToF32", "U32", FALSE, FALSE),
               create_bind_group_input1(dest, input), length, length)

\* ParamsConvTranspose1D of the calls the model makes, with a contiguous
\* input [b_size, c_in, l_in] and kernel [c_in, c_out, k_size]
ConvTranspose1dParams ==
    {[b_size |-> 1, c_in |-> 1, c_out |-> 2, l_in |-> l, k_size |-> k,
      padding |-> p, output_padding |-> o, stride |-> 1, dilation |-> 1] :
        l \in TransposeSizes, k \in TransposeKernels, p \in {0, 1}, o \in {0, 1}}
\* ParamsConvTranspose1D::l_out (conv.rs, specification-modelled), in
\* wrapping usize arithmetic
l_out_transpose(p) ==
    (p.l_in - 1) * p.stride - 2 * p.padding + p.dilation * (p.k_size - 1)
        + p.output_padding + 1
\* the subtraction of l_out leaves the range of usize
l_out_transpose_overflows(p) == sub_overflows((p.l_in - 1) * p.stride, 2 * p.padding)

\* the 18 meta words queue_conv1d_transpose adds (conv2d.rs:239-257)
conv1d_transpose_meta(p) ==
    <<p.b_size, p.c_in, p.k_size,
      1, p.c_out * p.k_size, p.k_size, 0,
      p.l_in, l_out_transpose(p) * p.c_out, l_out_transpose(p), l_out_transpose(p),
      p.c_in * p.l_in, p.l_in, 1,
      p.padding, p.stride, p.dilation, 0>>

\* a transposed-convolution encoder from get_meta on (conv2d.rs:85-146,
\* 214-276): the meta words are added, the first before_out of them before
\* the output size is asked for; get_dtype returns Err for an unsupported
\* dtype; the extents are computed and the dispatch is pushed.  In a build
\* with overflow checks the first subtraction or addition that leaves its
\* range panics; without them the value wraps.
queue_conv_transpose(kind, dtype, bind_group, words, before_out, out_overflows, extent_overflows, x, y, z, workload_size) ==
    \E overflow_checks \in BOOLEAN :
        IF overflow_checks /\ out_overflows
        THEN overflow_panic(SubSeq(words, 1, before_out))
        ELSE IF ~get_dtype_ok(dtype)
        THEN /\ meta' = get_meta_array \o words
             /\ current_meta' = get_meta_offset
             /\ op' = "err"
             /\ UNCHANGED dvars
             /\ UNCHANGED <<command_queue, pc, rvars, cvars, fvars, submitted,
                            most_needed, flushes>>
        ELSE IF overflow_checks /\ extent_overflows
        THEN overflow_panic(words)
        ELSE enqueue_workgroups_extra(words, PipelineType(kind, dtype, FALSE, FALSE),
                 bind_group, x, y, z, workload_size)

\* queue_conv1d_transpose (conv2d.rs:214-276) with the parameters p
queue_conv1d_transpose(p) ==
    \E dest \in Refs, input1 \in Refs, input2 \in Refs, dtype \in DTypes :
        LET shrunk == l_out_transpose(p) - p.output_padding IN
        /\ Held({dest, input1, input2})
        /\ dest \notin {input1, input2}
        /\ queue_conv_transpose("Conv1dTranspose", dtype,
               create_bind_group_input2(dest, input1, input2),
               conv1d_transpose_meta(p), 8, l_out_transpose_overflows(p),
               sub_overflows(l_out_transpose(p), p.output_padding)
                   \/ add_overflows(shrunk, 63),
               u32_div(shrunk + 63, 64), p.c_out, 1,
               l_out_transpose(p) * p.c_out * p.b_size * (p.c_in * p.c_out * p.k_size))

\* ParamsConvTranspose2D of the calls the model makes, with a contiguous
\* input [b_size, c_in, i_h, i_w] and kernel [c_in, c_out, k_h, k_w]
ConvTranspose2dParams ==
    {[b_size |-> 1, c_in |-> 1, c_out |-> 2, i_w |-> i, i_h |-> i, k_w |-> k, k_h |-> k,
      padding |-> p, output_padding |-> o, stride |-> 1, dilation |-> 1] :
        i \in TransposeSizes, k \in TransposeKernels, p \in {0, 1}, o \in {0, 1}}
\* ParamsConvTranspose2D::out_w and out_h (conv.rs, specification-modelled),
\* in wrapping usize arithmetic
out_w_transpose(p) ==
    (p.i_w - 1) * p.stride + p.dilation * (p.k_w - 1) + p.output_padding + 1
        - 2 * p.padding
out_h_transpose(p) ==
    (p.i_h - 1) * p.stride + p.dilation * (p.k_h - 1) + p.output_padding + 1
        - 2 * p.padding
\* the subtraction of out_w or out_h leaves the range of usize
out_transpose_overflows(p) ==
    \/ sub_overflows(out_w_transpose(p) + 2 * p.padding, 2 * p.padding)
    \/ sub_overflows(out_h_transpose(p) + 2 * p.padding, 2 * p.padding)

\* the 16 meta words queue_conv2d_transpose adds (conv2d.rs:110-127)
conv2d_transpose_meta(p) ==
    <<0, p.k_w, p.c_out * p.k_h * p.k_w, p.k_h * p.k_w, 0,
      p.i_w, p.i_h,
      out_w_transpose(p) * out_h_transpose(p) * p.c_out,
      out_w_transpose(p) * out_h_transpose(p),
      out_w_transpose(p), out_h_transpose(p),
      p.c_in * p.i_h * p.i_w, p.i_h * p.i_w, p.i_w,
      p.padding, p.stride>>

\* queue_conv2d_transpose (conv2d.rs:85-146) with the parameters p
queue_conv2d_transpose(p) ==
    \E dest \in Refs, input1 \in Refs, input2 \in Refs, dtype \in DTypes :
        LET shrunk_w == out_w_transpose(p) - p.output_padding
            shrunk_h == out_h_transpose(p) - p.output_padding
        IN
        /\ Held({dest, input1, input2})
        /\ dest \notin {input1, input2}
        /\ queue_conv_transpose("Conv2dTranspose", dtype,
               create_bind_group_input2(dest, input1, input2),
               conv2d_transpose_meta(p), 7, out_transpose_overflows(p),
               \/ sub_overflows(out_w_transpose(p), p.output_padding)
               \/ add_overflows(shrunk_w, 15)
               \/ sub_overflows(out_h_transpose(p), p.output_padding)
               \/ add_overflows(shrunk_h, 15),
               u32_div(shrunk_w + 15, 16), u32_div(shrunk_h + 15, 16), p.c_out,
               out_w_transpose(p) * out_h_transpose(p) * p.c_out * p.b_size
                   * (p.c_in * p.c_out * p.k_h * p.k_w))

\* what the guard of dev.command_queue gives access to
QueueBuffer ==
    [command_queue |-> command_queue, meta |-> meta, current_meta |-> current_meta,
     panic |-> FALSE]

\* get_meta (mod.rs:192-205) on the queue buffer qb
get_meta(qb) ==
    LET meta_offset == next_divisible_by_n(Len(qb.meta),
                           min_storage_buffer_offset_alignment \div 4)
    IN [qb EXCEPT !.current_meta = meta_offset,
                  !.meta = qb.meta \o Zeros(meta_offset - Len(qb.meta))]

\* MetaArray::add for each of the words (mod.rs:89-98)
add(qb, words) == [qb EXCEPT !.meta = qb.meta \o words]

\* enqueue_workgroups_extra (mod.rs:152-178) on the queue buffer qb
enqueue_workgroups(qb, pipeline, bind_group, x, y, z, workload_size) ==
    IF ExtentTooBig(x, y, z) THEN [qb EXCEPT !.panic = TRUE]
    ELSE [qb EXCEPT !.command_queue = Append(qb.command_queue,
              MlQueueDispatch(pipeline, bind_group, x, y, z, qb.current_meta,
                              workload_size))]

\* PipelineType made by get_pipeline_const: the key with its ConstArray
PipelineConst(kind, dtype, const_vec) ==
    [kind |-> kind, dtype |-> dtype, input1_inplaceable |-> FALSE,
     input2_inplaceable |-> FALSE, consts |-> const_vec]

\* Layout::contiguous(shape).stride() of a rank-4 shape
contiguous_stride(shape) ==
    <<shape[2] * shape[3] * shape[4], shape[3] * shape[4], shape[4], 1>>
\* the stride of a [b, c, h, w] view of a tensor stored as [b, h, w, c]
channels_last_stride(shape) ==
    <<shape[2] * shape[3] * shape[4], 1, shape[4] * shape[2], shape[2]>>
\* Shape::elem_count
elem_count(shape) == shape[1] * shape[2] * shape[3] * shape[4]

\* MetaArray::add_layout (device.rs, specification-modelled): rank, shape
\* words, stride words, start offset
add_layout(shape, stride, start_offset) ==
    <<Len(shape)>> \o shape \o stride \o <<start_offset>>

\* queue_copy_strided (copy.rs, specification-modelled): an unsupported dtype
\* fails at entry; otherwise the layout of the input and the offset in dest
\* are the parameters of one dispatch over Bindgroup1(dest, input), tiled by
\* enqueue_big over the elements
queue_copy_strided(qb, dest, input, dtype, shape, stride, dst_offset) ==
    IF ~get_dtype_ok(dtype) THEN [ok |-> FALSE, qb |-> qb]
    ELSE [ok |-> TRUE,
          qb |-> enqueue_workgroups(
                     add(get_meta(qb), add_layout(shape, stride, 0) \o <<dst_offset>>),
                     PipelineType("CopyStrided", dtype, FALSE, FALSE),
                     create_bind_group_input1(dest, input),
                     enqueue_big_x(elem_count(shape)), enqueue_big_y(elem_count(shape)), 1,
                     elem_count(shape))]

\* ParamsConv2D of the calls the model makes: batch 1, 3 input channels, a
\* 3 x 3 kernel, padding 1, stride 1, dilation 1
ParamsConv2D(c_out, i_h, i_w) ==
    [b_size |-> 1, i_h |-> i_h, i_w |-> i_w, k_h |-> 3, k_w |-> 3, c_out |-> c_out,
     c_in |-> 3, padding |-> 1, stride |-> 1, dilation |-> 1]
\* on both sides of each threshold of the pre-copy test
Conv2dCalls ==
    {ParamsConv2D(16, 64, 64), ParamsConv2D(32, 64, 64), ParamsConv2D(33, 64, 64),
     ParamsConv2D(33, 63, 64), ParamsConv2D(33, 64, 63)}

\* ParamsConv2D::out_w and out_h (conv.rs, specification-modelled)
out_w(p) == ((p.i_w + 2 * p.padding - p.dilation * (p.k_w - 1) - 1) \div p.stride) + 1
out_h(p) == ((p.i_h + 2 * p.padding - p.dilation * (p.k_h - 1) - 1) \div p.stride) + 1

\* the 16 meta words queue_conv2d adds (conv2d.rs:47-63)
conv2d_meta(p, input_stride, kernel_stride) ==
    <<0, kernel_stride[3], kernel_stride[2], kernel_stride[1], 0,
      p.i_w, p.i_h, out_w(p) * out_h(p) * p.c_out, out_w(p) * out_h(p), out_w(p), out_h(p),
      input_stride[1], input_stride[2], input_stride[3],
      p.padding, p.stride>>
\* const_vec of queue_conv2d (conv2d.rs:38-45)
conv2d_const_vec(p, input_stride, kernel_stride) ==
    <<kernel_stride[4], input_stride[4], p.dilation, p.k_w, p.k_h, p.b_size, p.c_in>>

\* a pre-copy test that leaves out the number of output channels
conv2d_precopy_any_c_out(input_stride, p) ==
    input_stride[4] # 1 /\ (p.i_h >= 64 /\ p.i_w >= 64)
\* the test of conv2d.rs:22
conv2d_precopy(input_stride, p) ==
    input_stride[4] # 1 /\ (p.c_out > 32) /\ (p.i_h >= 64 /\ p.i_w >= 64)

\* a transient buffer of one byte per element
tmp_buffer_size_bytes(shape) == elem_count(shape)
\* the size handed to cache.create_buffer_reference (conv2d.rs:24)
tmp_buffer_size(shape) == elem_count(shape) * 4

\* queue_conv2d (conv2d.rs:6-83) on an input of shape [b, c_in, i_h, i_w],
\* contiguous or channels-last, and a contiguous kernel: what a call whose
\* pre-copy test has an outcome in paths does to the queue buffer
queue_conv2d(cap, words, paths) ==
    \E dest \in Refs, input1 \in Refs, input2 \in Refs, dtype \in DTypes,
       p \in Conv2dCalls, strided \in BOOLEAN :
        LET shape == <<p.b_size, p.c_in, p.i_h, p.i_w>>
            stride_in == IF strided THEN channels_last_stride(shape)
                         ELSE contiguous_stride(shape)
            precopy == conv2d_precopy(stride_in, p)
            tmp_buffer == NumRefs + Len(created) + 1
            copied == IF precopy
                      THEN queue_copy_strided(QueueBuffer, tmp_buffer, input1, dtype,
                                              shape, stride_in, 0)
                      ELSE [ok |-> TRUE, qb |-> QueueBuffer]
            input_buffer == IF precopy THEN tmp_buffer ELSE input1
            input_stride == IF precopy THEN contiguous_stride(shape) ELSE stride_in
            kernel_stride == contiguous_stride(<<p.c_out, p.c_in, p.k_h, p.k_w>>)
            written == add(get_meta(copied.qb), conv2d_meta(p, input_stride, kernel_stride))
            queued == enqueue_workgroups(written,
                          PipelineConst("Conv2d", dtype,
                                        conv2d_const_vec(p, input_stride, kernel_stride)),
                          create_bind_group_input2(dest, input_buffer, input2),
                          (out_w(p) + 15) \div 16, (out_h(p) + 15) \div 16, p.c_out,
                          out_w(p) * out_h(p) * p.c_out * p.b_size
                              * elem_count(<<p.c_out, p.c_in, p.k_h, p.k_w>>))
            \* what the call leaves: the `?` of the copy returns before get_meta,
            \* the `?` of get_dtype after the meta words
            left == IF ~copied.ok THEN QueueBuffer
                    ELSE IF ~get_dtype_ok(dtype) THEN written
                    ELSE queued
        IN /\ CanEncodeWithin(cap, words)
           /\ precopy \in paths
           /\ Held({dest, input1, input2})
           /\ dest \notin {input1, input2}
           /\ command_queue' = left.command_queue
           /\ meta' = left.meta
           /\ current_meta' = left.current_meta
           /\ created' = IF precopy /\ copied.ok
                         THEN Append(created, tmp_buffer_size(shape)) ELSE created
           /\ pc' = IF left.panic THEN "panic_extent" ELSE pc
           /\ op' = IF copied.ok /\ get_dtype_ok(dtype) THEN "call" ELSE "err"
           /\ UNCHANGED <<storage, referenced, ext, cvars, fvars, submitted, most_needed,
                          flushes, last_buffer, in_flight, readback, probe_maps>>

\* queue_conv2d as one step of a single caller
QueueConv2d(cap, words) == queue_conv2d(cap, words, BOOLEAN) /\ UNCHANGED tvars

(***************************************************************************)
(* Storage pool and bind-group cache (cache.rs, specification-modelled).   *)
(***************************************************************************)
NoBuffer == [size |-> 0, state |-> "unalloc"]
Existing(bufs) == {b \in BufIds : bufs[b].state \in {"used", "free"}}
FreeBufs(bufs) == {b \in BufIds : bufs[b].state = "free"}

MemoryOf(bufs, S) ==
    SumSeq([b \in 1 .. NumRefs |-> IF b \in S THEN bufs[b].size ELSE 0])
\* cache.buffers.buffer_memory and cache.buffers.buffer_memory_free
buffer_memory(bufs) == MemoryOf(bufs, Existing(bufs))
buffer_memory_free(bufs) == MemoryOf(bufs, FreeBufs(bufs))

LowestOf(S) == CHOOSE b \in S : \A c \in S : b <= c

\* Binding one buffer reference to storage: a reference that has storage keeps
\* it; otherwise a free buffer of adequate size is reused, and only when there
\* is none a new buffer of the requested size is allocated.  A reference gets
\* a new buffer at most once in its life, so the new buffer takes the
\* reference's number as its identity.
BindRef(st, bufs, r) ==
    IF st[r] # None THEN [storage |-> st, buffers |-> bufs]
    ELSE LET fit == {b \in FreeBufs(bufs) : bufs[b].size >= BufferSize(r)}
         IN IF fit # {}
            THEN [storage |-> [st EXCEPT ![r] = LowestOf(fit)],
                  buffers |-> [bufs EXCEPT ![LowestOf(fit)].state = "used"]]
            ELSE [storage |-> [st EXCEPT ![r] = r],
                  buffers |-> [bufs EXCEPT ![r] =
                                  [size |-> BufferSize(r), state |-> "used"]]]

\* cache.get_bind_group: every unbacked reference of the bind group is bound,
\* dest first, then the bind group is made over the concrete buffers
RECURSIVE BindAll(_, _, _)
BindAll(st, bufs, refs) ==
    IF refs = <<>> THEN [storage |-> st, buffers |-> bufs]
    ELSE LET one == BindRef(st, bufs, Head(refs))
         IN BindAll(one.storage, one.buffers, Tail(refs))

get_bind_group(st, bufs, bindgroup_reference) ==
    LET bound == BindAll(st, bufs, bindgroup_reference.refs)
    IN [storage |-> bound.storage, buffers |-> bound.buffers,
        bindgroup |-> CachedBindgroup(
            [i \in 1 .. Len(bindgroup_reference.refs) |->
                bound.storage[bindgroup_reference.refs[i]]],
            bindgroup_reference.f16)]

\* remove_unused: while more is allocated than max_memory_allowed, free
\* buffers are dropped, oldest first; "limit" is what it returns (true when
\* the pool is still above the budget)
RECURSIVE remove_unused(_, _)
remove_unused(bufs, maxmem) ==
    IF buffer_memory(bufs) > maxmem /\ FreeBufs(bufs) # {}
    THEN remove_unused([bufs EXCEPT ![LowestOf(FreeBufs(bufs))] = NoBuffer], maxmem)
    ELSE [buffers |-> bufs, limit |-> buffer_memory(bufs) > maxmem]

\* Drop of the last handle of a buffer reference: its storage goes back to
\* the pool as a free buffer
RECURSIVE ReleaseDead(_, _, _, _)
ReleaseDead(queue, e, st, bufs) ==
    LET dead == {r \in Refs : StrongCountIn(queue, e, r) = 0 /\ st[r] # None}
    IN IF dead = {} THEN [storage |-> st, buffers |-> bufs]
       ELSE LET r == LowestOf(dead)
            IN ReleaseDead(queue, e, [st EXCEPT ![r] = None],
                           [bufs EXCEPT ![st[r]].state = "free"])

(***************************************************************************)
(* prepare (mod.rs:362-481).                                               *)
(***************************************************************************)
\* the bindings of the queue in the order prepare visits them: <<index, ref>>
RECURSIVE Bindings(_, _)
Bindings(queue, i) ==
    IF i > Len(queue) THEN <<>>
    ELSE [j \in 1 .. Len(queue[i].bindgroup.refs) |-> <<i, queue[i].bindgroup.refs[j]>>]
         \o Bindings(queue, i + 1)

\* pass 1: buffers_used_at, the last dispatch index that uses the reference
buffers_used_at(queue, r) ==
    LET at == {i \in 1 .. Len(queue) : Occurrences(queue[i].bindgroup.refs, r) > 0}
    IN CHOOSE i \in at : \A j \in at : j <= i

\* pass 2, one call of check_buffer.  total_used_storage is unsigned:
\* "underflow" records a subtraction that would take it below zero, where a
\* build with overflow checks panics
check_buffer(queue, st, ref, acc, i, r) ==
    LET first == r \notin acc.used
        total1 == IF first /\ st[r] = None THEN acc.total + BufferSize(r) ELSE acc.total
        last == buffers_used_at(queue, r) <= i /\ ~ref[r]
    IN [used |-> acc.used \cup {r},
        most |-> IF last /\ total1 > acc.most THEN total1 ELSE acc.most,
        total |-> IF last THEN total1 - BufferSize(r) ELSE total1,
        underflow |-> acc.underflow \/ (last /\ total1 < BufferSize(r))]

RECURSIVE prepare_pass2(_, _, _, _, _)
prepare_pass2(queue, st, ref, bs, acc) ==
    IF bs = <<>> THEN acc
    ELSE prepare_pass2(queue, st, ref, Tail(bs),
                       check_buffer(queue, st, ref, acc, Head(bs)[1], Head(bs)[2]))

\* most_needed_storage before the headroom, and whether a subtraction went
\* below zero on the way
most_needed_storage(queue, st, ref, bufs) ==
    LET used0 == buffer_memory(bufs) - buffer_memory_free(bufs)
    IN prepare_pass2(queue, st, ref, Bindings(queue, 1),
           [used |-> {}, most |-> used0, total |-> used0, underflow |-> FALSE])

\* a budget that is raised when needed and never decays
new_max_memory_allowed_sticky(most, maxmem) ==
    IF (most * 5) \div 4 > maxmem THEN (most * 5) \div 4 ELSE maxmem
\* the budget update at the end of prepare (mod.rs:471-479)
new_max_memory_allowed(most, maxmem) ==
    LET m == (most * 5) \div 4
    IN IF m > maxmem THEN m ELSE ((7 * maxmem) \div 8) + (m \div 8)

\* the hash over all pipeline keys in order (DefaultHasher), as a value of
\* 1 .. HashMod
PipelineCode(p) ==
    CASE p.kind = "UnaryFromBufferContiguous" -> 1
      [] p.kind = "BinaryBufferFromBufferContiguousBoth" -> 2
      [] p.kind = "Copy" -> 3
      [] p.kind = "ConvertU32ToU8" -> 4
      [] OTHER -> 5
RECURSIVE HashPipelines(_, _)
HashPipelines(queue, h) ==
    IF queue = <<>> THEN (h % HashMod) + 1
    ELSE HashPipelines(Tail(queue), (h * 7 + PipelineCode(Head(queue).pipeline)) % HashMod)

(***************************************************************************)
(* Flush: flush_gpu_command (mod.rs:737-803) and flush_gpu_command_async   *)
(* (mod.rs:806-877).                                                       *)
(***************************************************************************)
\* a flush that runs prepare and the loop whatever the length of the queue
FlushEntryAlways(m) ==
    /\ pc = "idle"
    /\ mapping' = HashPipelines(command_queue, 0)
    /\ max_memory_allowed' = new_max_memory_allowed(
           most_needed_storage(command_queue, storage, referenced, buffers).most,
           max_memory_allowed)
    /\ pc' = "set_buffers"
    /\ op' = "flush"
    /\ UNCHANGED dvars
    /\ mode' = m
    /\ UNCHANGED <<qvars, rvars, buffers, index, start_index, fl_current_meta,
                   last_meta, total_workload, cache_limit, submitted, most_needed,
                   flushes>>
\* the body both variants run when the queue is not empty: prepare, then the
\* locals of the loop; an empty queue skips everything
FlushEntry(m) ==
    /\ pc = "idle"
    /\ IF Len(command_queue) > 0
       THEN LET p == most_needed_storage(command_queue, storage, referenced, buffers)
            IN /\ mapping' = HashPipelines(command_queue, 0)
               /\ most_needed' = p.most
               /\ IF p.underflow
                  THEN /\ pc' = "panic_prepare"
                       /\ UNCHANGED max_memory_allowed
                  ELSE /\ pc' = "set_buffers"
                       /\ max_memory_allowed' =
                              new_max_memory_allowed(p.most, max_memory_allowed)
               /\ op' = "flush"
               /\ probe_maps' = 0
               /\ UNCHANGED <<created, last_buffer, in_flight, readback, tvars>>
               /\ mode' = m
               /\ index' = 0
               /\ start_index' = 0
               /\ fl_current_meta' = 0
               /\ last_meta' = 0
               /\ total_workload' = 0
               /\ cache_limit' = FALSE
               /\ submitted' = <<>>
               /\ UNCHANGED <<qvars, rvars, buffers, flushes>>
       ELSE /\ op' = "flush"
            /\ UNCHANGED dvars
            /\ UNCHANGED <<qvars, rvars, cvars, fvars, pc, submitted, most_needed,
                           flushes>>

flush_gpu_command == FlushEntry("blocking")
flush_gpu_command_async == FlushEntry("async")

(***************************************************************************)
(* set_buffers (mod.rs:484-734), one iteration of its loop per step.       *)
(***************************************************************************)
\* the in-place analysis of mod.rs:520-641 for the dispatch q
IsBindgroup1(q) == q.bindgroup.tag = "BindgroupReference" /\ Len(q.bindgroup.refs) = 2
IsBindgroup2(q) == q.bindgroup.tag = "BindgroupReference" /\ Len(q.bindgroup.refs) = 3

\* a test that does not ask who else holds the input
ReusableAnyHolders(vdest, v) ==
    /\ BufferSize(vdest) <= BufferSize(v)
    /\ storage[vdest] = None
\* the common test: the bind group holds the only handle of the input, dest
\* fits into it and dest has no storage yet
Reusable(vdest, v) ==
    /\ StrongCount(v) = 1
    /\ BufferSize(vdest) <= BufferSize(v)
    /\ storage[vdest] = None

\* a unary rewrite that does not ask whether dest has storage
optimize_unary_inplace_any_dest(q) ==
    /\ q.pipeline.kind = "UnaryFromBufferContiguous"
    /\ q.pipeline.input1_inplaceable
    /\ IsBindgroup1(q)
    /\ StrongCount(q.bindgroup.refs[2]) = 1
    /\ BufferSize(q.bindgroup.refs[1]) <= BufferSize(q.bindgroup.refs[2])
optimize_unary_inplace(q) ==
    /\ q.pipeline.kind = "UnaryFromBufferContiguous"
    /\ q.pipeline.input1_inplaceable
    /\ IsBindgroup1(q)
    /\ Reusable(q.bindgroup.refs[1], q.bindgroup.refs[2])

optimize_binary_inplace1(q) ==
    /\ q.pipeline.kind = "BinaryBufferFromBufferContiguousBoth"
    /\ q.pipeline.input1_inplaceable
    /\ IsBindgroup2(q)
    /\ Reusable(q.bindgroup.refs[1], q.bindgroup.refs[2])

optimize_binary_inplace2(q) ==
    /\ q.pipeline.kind = "BinaryBufferFromBufferContiguousBoth"
    /\ ~q.pipeline.input1_inplaceable
    /\ q.pipeline.input2_inplaceable
    /\ IsBindgroup2(q)
    /\ Reusable(q.bindgroup.refs[1], q.bindgroup.refs[3])

\* a planner without the copy branch
optimize_copy_disabled(q) == FALSE
optimize_copy_inplace(q) ==
    /\ q.pipeline.kind = "Copy"
    /\ q.pipeline.input1_inplaceable
    /\ IsBindgroup1(q)
    /\ Reusable(q.bindgroup.refs[1], q.bindgroup.refs[2])

\* the dispatch after the rewrite of its pipeline and bind-group reference
Rewritten(q) ==
    LET r == q.bindgroup.refs IN
    IF optimize_unary_inplace(q)
    THEN [q EXCEPT !.pipeline.kind = "UnaryInplaceContiguous",
                   !.bindgroup = BindGroupReference(<<r[2]>>, FALSE)]
    ELSE IF optimize_binary_inplace1(q)
    THEN [q EXCEPT !.pipeline.kind = "BinaryBufferInplace1ContiguousBoth",
                   !.bindgroup = BindGroupReference(<<r[2], r[3]>>, FALSE)]
    ELSE IF optimize_binary_inplace2(q)
    THEN [q EXCEPT !.pipeline.kind = "BinaryBufferInplace2ContiguousBoth",
                   !.bindgroup = BindGroupReference(<<r[3], r[2]>>, FALSE)]
    ELSE q

\* <<vdest_ref, v1_ref>> of a rewrite, <<>> when there is none
AliasOf(q) ==
    LET r == q.bindgroup.refs IN
    IF optimize_unary_inplace(q) \/ optimize_binary_inplace1(q) \/ optimize_copy_inplace(q)
    THEN <<r[1], r[2]>>
    ELSE IF optimize_binary_inplace2(q) THEN <<r[1], r[3]>>
    ELSE <<>>

\* a planner that forgets the swap of the storage slots
KeepStorage(st, bufs, alias) == [storage |-> st, buffers |-> bufs]
\* a planner that hands the storage to dest and forgets to take it from the
\* input
ShareStorage(st, bufs, alias) ==
    IF alias = <<>> THEN [storage |-> st, buffers |-> bufs]
    ELSE [storage |-> [st EXCEPT ![alias[1]] = st[alias[2]]], buffers |-> bufs]
\* *vdest_storage = v1_storage.cloned(); *v1_storage = None.  The buffer dest
\* held before (if any) loses its only holder and is free again.
MoveStorage(st, bufs, alias) ==
    IF alias = <<>> THEN [storage |-> st, buffers |-> bufs]
    ELSE LET vdest == alias[1]
             v1 == alias[2]
             old == st[vdest]
         IN [storage |-> [st EXCEPT ![vdest] = st[v1], ![v1] = None],
             buffers |-> IF old # None /\ old # st[v1]
                         THEN [bufs EXCEPT ![old].state = "free"] ELSE bufs]

\* a planner that leaves the pipeline_cached slot empty
PlannedDispatchNoPipeline(q, rq, copy, bindgroup) ==
    IF copy THEN [q EXCEPT !.bindgroup = BindgroupNone]
    ELSE [rq EXCEPT !.bindgroup = bindgroup]
\* the dispatch as set_buffers leaves it (mod.rs:644-712): an elided copy
\* loses its bind group; any other dispatch, rewritten or not, gets the
\* cached bind group and its pipeline
PlannedDispatch(q, rq, copy, bindgroup) ==
    IF copy THEN [q EXCEPT !.bindgroup = BindgroupNone]
    ELSE [rq EXCEPT !.bindgroup = bindgroup, !.pipeline_cached = TRUE]

\* a workload test without the guard for the first dispatch of a batch
WorkloadBreakAlways(total, q, ele_size) ==
    (total + q.workload_size) > MAX_WORKLOAD_SIZE
\* a workload test that breaks only once the running sum is above the cap
WorkloadBreakLate(total, q, ele_size) ==
    total > MAX_WORKLOAD_SIZE /\ ele_size > 1
\* a workload test that breaks as soon as the running sum reaches the cap
WorkloadBreakEarly(total, q, ele_size) ==
    (total + q.workload_size) >= MAX_WORKLOAD_SIZE /\ ele_size > 1
\* the workload test at the head of the loop body (mod.rs:504-508)
WorkloadBreak(total, q, ele_size) ==
    (total + q.workload_size) > MAX_WORKLOAD_SIZE /\ ele_size > 1

\* the metadata cap (mod.rs:716-720)
MetaBreak(lm, cm) == ((lm - cm) * 4 + 256 * 3) > META_BUFFER_SIZE

set_buffers ==
    /\ pc = "set_buffers"
    /\ index < Len(command_queue)
    /\ LET i == index + 1
           q == command_queue[i]
           ele_size == i - start_index
       IN IF WorkloadBreak(total_workload, q, ele_size)
          THEN \* *index -= 1; break
               /\ pc' = "get_command_buffer"
               /\ op' = "flush"
               /\ UNCHANGED dvars
               /\ UNCHANGED <<qvars, rvars, cvars, fvars, submitted, most_needed, flushes>>
          ELSE LET total == total_workload + q.workload_size
                   alias == AliasOf(q)
                   copy == optimize_copy_inplace(q)
                   rq == Rewritten(q)
                   \* bind-group materialization (skipped for an elided copy)
                   bg == get_bind_group(storage, buffers, rq.bindgroup)
                   ru == remove_unused(bg.buffers, max_memory_allowed)
                   st1 == IF copy THEN storage ELSE bg.storage
                   bufs1 == IF copy THEN buffers ELSE ru.buffers
                   limit == IF copy THEN cache_limit ELSE (cache_limit \/ ru.limit)
                   nq == PlannedDispatch(q, rq, copy, bg.bindgroup)
                   queue1 == [command_queue EXCEPT ![i] = nq]
                   moved == MoveStorage(st1, bufs1, alias)
                   rel == ReleaseDead(queue1, ext, moved.storage, moved.buffers)
                   stop == \/ MetaBreak(q.meta, fl_current_meta)
                           \/ limit
                           \/ total > MAX_WORKLOAD_SIZE
                           \/ i = Len(command_queue)
               IN /\ command_queue' = queue1
                  /\ storage' = rel.storage
                  /\ buffers' = rel.buffers
                  /\ index' = i
                  /\ total_workload' = total
                  /\ cache_limit' = limit
                  /\ last_meta' = q.meta
                  /\ pc' = IF stop THEN "get_command_buffer" ELSE "set_buffers"
                  /\ op' = "flush"
                  /\ UNCHANGED dvars
                  /\ UNCHANGED <<meta, current_meta, referenced, ext, max_memory_allowed,
                                 mapping, mode, start_index, fl_current_meta,
                                 submitted, most_needed, flushes>>

(***************************************************************************)
(* get_command_buffer (mod.rs:239-359) and the submit of the flush loop.   *)
(***************************************************************************)
\* a slice that ends where the parameters of the last dispatch start
last_meta_index_no_tail == Min(last_meta, Len(meta))
\* last_meta_index of the flush loop (mod.rs:750)
last_meta_index == Min(last_meta + (256 \div 4), Len(meta))

\* get_command_buffer records a dispatch only with a cached bind group and a
\* cached pipeline (mod.rs:281-282)
IsRecorded(q) == q.bindgroup.tag = "CachedBindgroup" /\ q.pipeline_cached

\* the positions of the slice, last first
SlicePositionsReversed(from, to) == [k \in 1 .. (to - from) |-> to - k + 1]
\* the positions of the slice [start_index..index) in the order of the loop
\* at mod.rs:278
SlicePositions(from, to) == [k \in 1 .. (to - from) |-> from + k]

RECURSIVE SelectSeqBy(_, _)
SelectSeqBy(ps, queue) ==
    IF ps = <<>> THEN <<>>
    ELSE (IF IsRecorded(queue[Head(ps)]) THEN <<Head(ps)>> ELSE <<>>)
         \o SelectSeqBy(Tail(ps), queue)

\* what the compute pass holds for the dispatch at position pos
RecordedDispatch(pos, cm) ==
    LET q == command_queue[pos]
    IN [pos |-> pos, pipeline |-> q.pipeline.kind, bufs |-> q.bindgroup.bufs,
        offset |-> (q.meta - cm) * 4, x |-> q.x, y |-> q.y, z |-> q.z]

\* the command buffer get_command_buffer returns for the current slice
CommandBuffer(waiting) ==
    LET ps == SelectSeqBy(SlicePositions(start_index, index), command_queue)
    IN [from |-> start_index, to |-> index,
        bytes |-> (last_meta_index - fl_current_meta) * 4,
        recorded |-> [k \in 1 .. Len(ps) |-> RecordedDispatch(ps[k], fl_current_meta)],
        workload |-> SumSeq([k \in 1 .. (index - start_index) |->
                               command_queue[start_index + k].workload_size]),
        probe_copy |-> waiting]

\* the fatal checks of get_command_buffer (mod.rs:259-261, 295-300)
MetaTooBig(cb) ==
    \/ cb.bytes + 256 > META_BUFFER_SIZE
    \/ \E k \in 1 .. Len(cb.recorded) :
          \/ cb.recorded[k].offset < 0
          \/ cb.recorded[k].offset >= META_BUFFER_SIZE - 256

\* the flush variants: synchronize runs flush_gpu_command, synchronize_async
\* and read_data_from_gpu_async run flush_gpu_command_async
BlockingModes == {"blocking", "synchronize"}
AsyncModes == {"async", "synchronize_async", "read_data"}

\* the waiting_buffer the variant m hands to get_command_buffer: &None
\* (mod.rs:757) or &queue_buffer.last_buffer (mod.rs:826)
waiting_buffer(m) == IF m \in AsyncModes THEN last_buffer ELSE None

\* a flush that goes from get_command_buffer to queue.submit without a poll
polled_no_wait(m, n) == n

\* what is still in flight when the variant m gets to queue.submit, with n
\* command buffers in flight before: the blocking variant polls the device
\* to completion (mod.rs:764, compiled for every target but wasm32, where
\* nothing can block); the async variant polls without waiting and, unless
\* the device queue is empty, awaits synchronize_device (mod.rs:832-834)
polled(m, n) ==
    IF m \in BlockingModes THEN 0
    ELSE IF n # 0 THEN 0 ELSE n

\* how often the variant m awaits synchronize_device, which maps the staging
\* probe (mod.rs:1174-1176, 1212-1240), before it submits with n command
\* buffers in flight: the async variant does when the poll finds the device
\* queue not empty (mod.rs:832-834)
waits(m, n) == IF m \in AsyncModes /\ n # 0 THEN 1 ELSE 0

\* get_command_buffer over the slice, the wait, queue.submit, then the
\* loop's start_index = index; current_meta = last_meta
get_command_buffer ==
    /\ pc = "get_command_buffer"
    /\ LET cb == CommandBuffer(waiting_buffer(mode))
       IN IF MetaTooBig(cb) \/ fl_current_meta > last_meta_index
          THEN /\ pc' = "panic_meta"
               /\ UNCHANGED <<fvars, submitted, in_flight, probe_maps>>
          ELSE /\ submitted' = Append(submitted, cb)
               /\ in_flight' = polled(mode, in_flight) + 1
               /\ probe_maps' = probe_maps + waits(mode, in_flight)
               /\ start_index' = index
               /\ fl_current_meta' = last_meta
               /\ total_workload' = 0
               /\ cache_limit' = FALSE
               /\ pc' = IF index < Len(command_queue) THEN "set_buffers" ELSE "finish"
               /\ UNCHANGED <<mode, index, last_meta>>
    /\ op' = "flush"
    /\ UNCHANGED <<qvars, rvars, cvars, most_needed, flushes, created, last_buffer,
                   readback, tvars>>

\* QueueBuffer::clear (device.rs, specification-modelled): the queue is
\* emptied and the meta array truncated
clear ==
    /\ command_queue' = <<>>
    /\ meta' = <<>>
    /\ current_meta' = 0

\* the variants that run inside synchronize / synchronize_async
SyncModes == {"synchronize", "synchronize_async"}

\* the end of a flush (mod.rs:793-801): clear, then the cache clean-up; a
\* flush inside synchronize returns to synchronize (mod.rs:1137)
FlushExit ==
    /\ pc = "finish"
    /\ clear
    /\ LET rel == ReleaseDead(<<>>, ext, storage, buffers)
           ru == remove_unused(rel.buffers, max_memory_allowed)
       IN /\ storage' = rel.storage
          /\ buffers' = ru.buffers
    /\ pc' = IF mode \in SyncModes THEN "synchronize_device"
             ELSE IF mode = "read_data" THEN "read_data" ELSE "idle"
    /\ op' = "flush"
    /\ UNCHANGED dvars
    \* the locals of the flush are gone
    /\ index' = 0
    /\ start_index' = 0
    /\ fl_current_meta' = 0
    /\ last_meta' = 0
    /\ total_workload' = 0
    /\ cache_limit' = FALSE
    /\ submitted' = <<>>
    /\ most_needed' = 0
    /\ mode' = IF mode \in SyncModes \cup {"read_data"} THEN mode ELSE "none"
    /\ flushes' = flushes + 1
    /\ UNCHANGED <<referenced, ext, max_memory_allowed, mapping>>

(***************************************************************************)
(* synchronize (mod.rs:1133-1144), synchronize_async (mod.rs:1147-1157)    *)
(* and the device.                                                         *)
(***************************************************************************)
\* the entry of both: with a queue that is not empty the flush starts, with
\* an empty queue the call returns Ok at once
SynchronizeEntry(m) ==
    IF Len(command_queue) > 0
    THEN FlushEntry(m)
    ELSE /\ pc = "idle"
         /\ op' = "synchronize"
         /\ UNCHANGED <<qvars, rvars, cvars, fvars, pc, submitted, most_needed, flushes,
                        dvars>>

synchronize == SynchronizeEntry("synchronize")
synchronize_async == SynchronizeEntry("synchronize_async")

\* wait_for_gpu_buffer_async (mod.rs:1212-1240): the staging probe is mapped
\* and the device polled until it has nothing left, whatever was in flight
wait_for_gpu_buffer_async(n) == 0

\* after the flush: copy_to_staging_prope submits a copy of the last-written
\* buffer when there is one (mod.rs:1137-1139, 1196-1207), then
\* synchronize_device waits (mod.rs:1141, 1174-1176) and the call returns
synchronize_device ==
    /\ pc = "synchronize_device"
    /\ in_flight' = wait_for_gpu_buffer_async(
                        IF last_buffer # None THEN in_flight + 1 ELSE in_flight)
    /\ probe_maps' = probe_maps + 1
    /\ pc' = "idle"
    /\ mode' = "none"
    /\ op' = "synchronize"
    /\ UNCHANGED <<qvars, rvars, cvars, index, start_index, fl_current_meta, last_meta,
                   total_workload, cache_limit, submitted, most_needed, flushes,
                   created, last_buffer, readback, tvars>>

\* the device completes the oldest command buffer in flight
device_done ==
    /\ in_flight > 0
    /\ in_flight' = in_flight - 1
    /\ UNCHANGED <<qvars, rvars, cvars, fvars, pc, submitted, most_needed, flushes, op,
                   created, last_buffer, readback, probe_maps, tvars>>

(***************************************************************************)
(* read_data_from_gpu_async (mod.rs:1180-1193) and                         *)
(* read_data_from_gpu_async_buffer (mod.rs:1245-1299).                     *)
(***************************************************************************)
\* the entry: flush_gpu_command_async on the queue (mod.rs:1184-1185); with
\* an empty queue the flush does nothing and the call goes on
read_data_from_gpu_async ==
    IF Len(command_queue) > 0
    THEN FlushEntry("read_data")
    ELSE /\ pc = "idle"
         /\ pc' = "read_data"
         /\ mode' = "read_data"
         /\ op' = "flush"
         /\ UNCHANGED <<qvars, rvars, cvars, index, start_index, fl_current_meta,
                        last_meta, total_workload, cache_limit, submitted, most_needed,
                        flushes, dvars>>

\* a read that returns without the poll of the device
map_read_no_poll(n) == n
\* map_async, poll(Maintain::wait()) and the receiver (mod.rs:1266-1277):
\* nothing of the n command buffers submitted is in flight afterwards
map_read_poll(n) == 0

\* after the flush, for the buffer reference the caller handed over: without
\* storage the call panics (mod.rs:1187-1192); otherwise the copy of the
\* whole buffer into a new staging buffer is submitted, the staging buffer is
\* mapped and the bytes are returned
read_data_from_gpu_async_buffer ==
    \E buffer \in Refs :
        /\ pc = "read_data"
        /\ ext[buffer] >= 1
        /\ IF storage[buffer] = None
           THEN /\ pc' = "panic_read"
                /\ UNCHANGED <<mode, in_flight, readback>>
           ELSE /\ in_flight' = map_read_poll(in_flight + 1)
                /\ readback' = [ref |-> buffer, buffer |-> storage[buffer],
                                size |-> buffers[storage[buffer]].size]
                /\ pc' = "idle"
                /\ mode' = "none"
        /\ op' = "read"
        /\ UNCHANGED <<qvars, rvars, cvars, index, start_index, fl_current_meta,
                       last_meta, total_workload, cache_limit, submitted, most_needed,
                       flushes, created, last_buffer, probe_maps, tvars>>

(***************************************************************************)
(* Callers.                                                                *)
(***************************************************************************)
\* a caller drops its handle of a buffer reference
DropRef ==
    \E r \in Refs :
        /\ pc = "idle"
        /\ ext[r] = 1
        /\ LET e == [ext EXCEPT ![r] = 0]
               rel == ReleaseDead(command_queue, e, storage, buffers)
           IN /\ ext' = e
              /\ storage' = rel.storage
              /\ buffers' = rel.buffers
        /\ op' = "call"
        /\ UNCHANGED dvars
        /\ UNCHANGED <<qvars, referenced, max_memory_allowed, mapping, fvars, pc,
                       submitted, most_needed, flushes>>

(***************************************************************************)
(* Specifications.                                                         *)
(***************************************************************************)
\* The state after construction for the callers' references in held: the
\* first ones, up to the number backed, were created with data
\* (create_buffer_init) and have storage, the others are outputs without
\* storage; the references created by a tensor storage
\* (is_referenced_by_storage) are the ones up to the number tensors.
\* nothing has been read back yet
NoRead == [ref |-> None, buffer |-> None, size |-> 0]

\* the threads that call encoders at the same time
Threads == {1, 2}
\* no thread holds the guard of a mutex
NoThread == 0
\* a thread that is in no encoder call
NoCall == [kind |-> "none", words |-> <<>>, offset |-> 0]

InitQueue(held, backed, tensors, last) ==
    /\ command_queue = <<>>
    /\ meta = <<>>
    /\ current_meta = 0
    /\ storage = [r \in Refs |-> IF r \in held /\ r <= backed THEN r ELSE None]
    /\ buffers = [b \in BufIds |->
          IF b \in held /\ b <= backed THEN [size |-> BufferSize(b), state |-> "used"]
          ELSE NoBuffer]
    /\ referenced = [r \in Refs |-> r \in held /\ r <= tensors]
    /\ ext = [r \in Refs |-> IF r \in held THEN 1 ELSE 0]
    /\ max_memory_allowed = 0
    /\ mapping = 0
    /\ pc = "idle"
    /\ mode = "none"
    /\ index = 0
    /\ start_index = 0
    /\ fl_current_meta = 0
    /\ last_meta = 0
    /\ total_workload = 0
    /\ cache_limit = FALSE
    /\ submitted = <<>>
    /\ most_needed = 0
    /\ flushes = 0
    /\ op = "call"
    /\ created = <<>>
    /\ last_buffer = last
    /\ in_flight = 0
    /\ readback = NoRead
    /\ probe_maps = 0
    /\ queue_guard = NoThread
    /\ cache_guard = "free"
    /\ encoder = [t \in Threads |-> NoCall]

\* the same with no last-written buffer
InitWith(held, backed, tensors) == InitQueue(held, backed, tensors, None)

\* Specification Spec: the planner over element-wise ops on NumRefs
\* references, flushed by flush_gpu_command
Init ==
    \E backed \in 0 .. NumRefs : InitWith(Refs, backed, 0)

queue_unary_from_buffer_op == flushes < MaxFlushes /\ QueueUnary(MaxQueue)
queue_binary_buffer_from_buffer == flushes < MaxFlushes /\ QueueBinary(MaxQueue)
queue_copy == flushes < MaxFlushes /\ QueueCopy(MaxQueue)

Next ==
    \/ queue_unary_from_buffer_op
    \/ queue_binary_buffer_from_buffer
    \/ queue_copy
    \/ DropRef
    \/ flush_gpu_command
    \/ set_buffers
    \/ get_command_buffer
    \/ FlushExit

Spec == Init /\ [][Next]_vars

\* Specification SpecBatch: batches of up to MaxBatch dispatches of the
\* convert, conv1d and copy encoders over two references
InitBatch ==
    \E backed \in {1, 2} : InitWith({1, 2}, backed, 0)

batch_convert_u32_to_u8 == flushes < MaxFlushes /\ QueueConvertU32ToU8(MaxBatch)
batch_conv1d == flushes < MaxFlushes /\ QueueConv1d(MaxBatch)
batch_copy == flushes < MaxFlushes /\ QueueCopy(MaxBatch)

NextBatch ==
    \/ batch_convert_u32_to_u8
    \/ batch_conv1d
    \/ batch_copy
    \/ DropRef
    \/ flush_gpu_command
    \/ flush_gpu_command_async
    \/ set_buffers
    \/ get_command_buffer
    \/ FlushExit

SpecBatch == InitBatch /\ [][NextBatch]_vars

\* Specification SpecBudget: up to MaxBudgetFlushes flushes of one unary
\* dispatch each, with references dropped in between
InitBudget ==
    \E backed \in 0 .. NumRefs, tensors \in {0, 1} : InitWith(Refs, backed, tensors)

budget_unary == flushes < MaxBudgetFlushes /\ QueueUnary(1)

NextBudget ==
    \/ budget_unary
    \/ DropRef
    \/ flush_gpu_command
    \/ flush_gpu_command_async
    \/ set_buffers
    \/ get_command_buffer
    \/ FlushExit

SpecBudget == InitBudget /\ [][NextBudget]_vars

\* Specification SpecSync: unary ops on NumRefs references, flushed by
\* flush_gpu_command, flush_gpu_command_async, synchronize or
\* synchronize_async, with a device that completes its work at any time and
\* a queue buffer that may hold a last-written buffer
InitSync ==
    \E backed \in 1 .. NumRefs, last \in {None, 1} : InitQueue(Refs, backed, 0, last)

sync_unary == flushes < MaxFlushes /\ QueueUnary(MaxQueue)

NextSync ==
    \/ sync_unary
    \/ DropRef
    \/ flush_gpu_command
    \/ flush_gpu_command_async
    \/ synchronize
    \/ synchronize_async
    \/ set_buffers
    \/ get_command_buffer
    \/ FlushExit
    \/ synchronize_device
    \/ device_done

SpecSync == InitSync /\ [][NextSync]_vars

\* Specification SpecRead: unary dispatches, dropped references and reads of
\* a buffer
InitRead ==
    \E backed \in 0 .. NumRefs : InitWith(Refs, backed, 0)

read_unary == flushes < MaxFlushes /\ QueueUnary(MaxQueue)

NextRead ==
    \/ read_unary
    \/ DropRef
    \/ read_data_from_gpu_async
    \/ set_buffers
    \/ get_command_buffer
    \/ FlushExit
    \/ read_data_from_gpu_async_buffer
    \/ device_done

SpecRead == InitRead /\ [][NextRead]_vars

\* SpecMeta: calls of queue_conv1d, of which those with an unsupported dtype
\* leave their meta words behind, and the flush of what they queued
InitMeta ==
    \E backed \in {1, 2} : InitWith(Refs, backed, 0)

meta_conv1d ==
    /\ flushes < MaxFlushes
    /\ CanEncodeWithin(MaxMetaQueue, MaxUploadWords)
    /\ queue_conv1d

NextMeta ==
    \/ meta_conv1d
    \/ flush_gpu_command
    \/ flush_gpu_command_async
    \/ set_buffers
    \/ get_command_buffer
    \/ FlushExit

SpecMeta == InitMeta /\ [][NextMeta]_vars

\* Specification SpecEncode: calls of the encoders over two references,
\* never flushed
InitEncode ==
    \E backed \in {1, 2} : InitWith({1, 2}, backed, 0)

encode_conv2d == QueueConv2d(MaxEncode, MaxEncodeWords)
encode_conv1d == CanEncodeWithin(MaxEncode, MaxEncodeWords) /\ QueueConv1d(MaxEncode)
encode_convert_to_u8 == QueueConvertToU8(MaxEncode, MaxEncodeWords)
encode_unary == QueueUnaryLength(MaxEncode, MaxEncodeWords)

NextEncode ==
    \/ encode_conv2d
    \/ encode_conv1d
    \/ encode_convert_to_u8
    \/ encode_unary

SpecEncode == InitEncode /\ [][NextEncode]_vars

\* Specification SpecExtent: calls of the encoders whose extents come out of
\* unsigned arithmetic that can leave its range, never flushed
InitExtent ==
    \E backed \in {1, 2} : InitWith({1, 2}, backed, 0)

extent_unary == queue_unary_length(MaxEncode, MaxEncodeWords, WideLengths)
extent_convert_u32_to_f32 == queue_convert_u32_to_f32(MaxEncode, MaxEncodeWords)
extent_conv1d_transpose ==
    \E p \in ConvTranspose1dParams :
        CanEncodeWithin(MaxEncode, MaxEncodeWords) /\ queue_conv1d_transpose(p)
extent_conv2d_transpose ==
    \E p \in ConvTranspose2dParams :
        CanEncodeWithin(MaxEncode, MaxEncodeWords) /\ queue_conv2d_transpose(p)

NextExtent ==
    \/ extent_unary
    \/ extent_convert_u32_to_f32
    \/ extent_conv1d_transpose
    \/ extent_conv2d_transpose

SpecExtent == InitExtent /\ [][NextExtent]_vars

\* SpecLocks: one thread calls encoders, among them queue_conv2d on the
\* pre-copy path, which takes the cache mutex (conv2d.rs:23) and holds it over
\* queue_copy_strided (conv2d.rs:26), whose get_meta takes the command-queue
\* mutex (mod.rs:193); another thread flushes, holding the command-queue
\* mutex from entry to exit (mod.rs:1134) and taking the cache mutex in
\* prepare (mod.rs:376), in every iteration of set_buffers (mod.rs:497) and
\* in the clean-up (mod.rs:795).  A step that needs a mutex another thread
\* holds is not enabled.
InitLocks ==
    \E backed \in {1, 2} : InitWith(Refs, backed, 0)

locks_unary ==
    /\ flushes < MaxFlushes
    /\ cache_guard = "free"
    /\ QueueUnary(MaxQueue)

\* queue_conv2d up to dev.cache.lock() of the pre-copy path (conv2d.rs:22-23)
conv2d_lock_cache ==
    /\ flushes < MaxFlushes
    /\ cache_guard = "free"
    /\ Len(command_queue) < MaxQueue
    /\ cache_guard' = "queue_conv2d"
    /\ UNCHANGED <<qvars, rvars, cvars, fvars, pc, submitted, most_needed, flushes, op,
                   created, last_buffer, in_flight, readback, probe_maps,
                   queue_guard, encoder>>

\* the rest of that call: the strided copy under both mutexes, the end of
\* the block that releases the cache mutex, the dispatch of the convolution
conv2d_enqueue_precopy ==
    /\ cache_guard = "queue_conv2d"
    /\ queue_conv2d(MaxQueue + 1, MaxEncodeWords, {TRUE})
    /\ cache_guard' = "free"
    /\ UNCHANGED <<queue_guard, encoder>>

\* the flush of a queue of the callers' references
locks_flush ==
    /\ cache_guard = "free"
    /\ \A k \in 1 .. Len(command_queue) :
           command_queue[k].pipeline.kind = "UnaryFromBufferContiguous"
    /\ flush_gpu_command
locks_set_buffers == cache_guard = "free" /\ set_buffers
locks_finish == cache_guard = "free" /\ FlushExit

NextLocks ==
    \/ locks_unary
    \/ conv2d_lock_cache
    \/ conv2d_enqueue_precopy
    \/ locks_flush
    \/ locks_set_buffers
    \/ get_command_buffer
    \/ locks_finish

SpecLocks == InitLocks /\ [][NextLocks]_vars

\* SpecThreads: the threads call encoders at the same time, one statement
\* at a time: get_meta, each meta.add, the enqueue that pushes the dispatch
\* and drops the guard; a flush runs between the calls.
\* dispatches queued before a thread calls an encoder
MaxThreadQueue == 2
\* the sizes the threads hand to the byte-packed converts
ThreadSizes == {5, 257}

\* the encoder calls of the threads: queue_convert_u32_to_u8 and
\* queue_convert_f32_to_u8 (convert/mod.rs:77-125) and queue_conv1d
\* (conv2d.rs:149-212), as the words to add and what is pushed after them
ThreadCalls ==
    {[kind |-> k, dtype |-> IF k = "ConvertU32ToU8" THEN "U32" ELSE "F32",
      words |-> <<0, size>>, refs |-> <<dest, 3>>,
      x |-> (((size + 3) \div 4) + WORKGROUP_SIZE - 1) \div WORKGROUP_SIZE, y |-> 1,
      workload_size |-> (size + 3) \div 4] :
        k \in {"ConvertU32ToU8", "ConvertF32ToU8"}, size \in ThreadSizes, dest \in {1, 2}}
    \cup
    {[kind |-> "Conv1d", dtype |-> dtype, words |-> conv1d_meta(Conv1dParams),
      refs |-> <<1, 2, 3>>,
      x |-> (l_out(Conv1dParams) + 63) \div 64, y |-> Conv1dParams.c_out,
      workload_size |-> l_out(Conv1dParams) * Conv1dParams.c_out * Conv1dParams.b_size
                          * (Conv1dParams.c_out * Conv1dParams.c_in * Conv1dParams.k_size)] :
        dtype \in DTypes}

\* a lock that lets every encoder call in
lock_command_queue_shared == pc = "idle"
\* dev.command_queue.lock() (mod.rs:193) returns: no flush and no other
\* encoder call holds the mutex
lock_command_queue == pc = "idle" /\ queue_guard = NoThread

InitThreads ==
    \E backed \in {2, 3} : InitWith(Refs, backed, 0)

\* get_meta (mod.rs:192-205) of a call: the guard is taken, current_meta set
\* to the aligned end of the meta array and the array padded to it
thread_get_meta ==
    \E t \in Threads, call \in ThreadCalls :
        /\ encoder[t].kind = "none"
        /\ lock_command_queue
        /\ flushes < MaxFlushes
        /\ Len(command_queue) < MaxThreadQueue
        /\ get_meta_offset < MaxMetaWords
        /\ queue_guard' = t
        /\ encoder' = [encoder EXCEPT ![t] = call]
        /\ meta' = get_meta_array
        /\ current_meta' = get_meta_offset
        /\ op' = "call"
        /\ UNCHANGED <<command_queue, rvars, cvars, fvars, pc, submitted, most_needed,
                       flushes, created, last_buffer, in_flight, readback, probe_maps,
                       cache_guard>>

\* one meta.add of the call (mod.rs:89-98)
thread_add ==
    \E t \in Threads :
        /\ encoder[t].kind # "none"
        /\ encoder[t].words # <<>>
        /\ meta' = Append(meta, Head(encoder[t].words))
        /\ encoder' = [encoder EXCEPT ![t].words = Tail(encoder[t].words)]
        /\ op' = "call"
        /\ UNCHANGED <<command_queue, current_meta, rvars, cvars, fvars, pc, submitted,
                       most_needed, flushes, created, last_buffer, in_flight, readback,
                       probe_maps, queue_guard, cache_guard>>

\* the end of the call: the `?` of get_dtype returns and drops the guard, or
\* enqueue_workgroups_extra (mod.rs:152-178) pushes the dispatch with
\* meta: command_queue.current_meta and the guard is dropped with it
thread_enqueue ==
    \E t \in Threads :
        LET call == encoder[t]
            bind_group == IF Len(call.refs) = 2
                          THEN create_bind_group_input1(call.refs[1], call.refs[2])
                          ELSE create_bind_group_input2(call.refs[1], call.refs[2],
                                                        call.refs[3])
        IN /\ call.kind # "none"
           /\ call.words = <<>>
           /\ IF get_dtype_ok(call.dtype)
              THEN /\ command_queue' =
                         enqueue_workgroups(QueueBuffer,
                             PipelineType(call.kind, call.dtype, FALSE, FALSE), bind_group,
                             call.x, call.y, 1, call.workload_size).command_queue
                   /\ op' = "call"
              ELSE /\ command_queue' = command_queue
                   /\ op' = "err"
           /\ queue_guard' = NoThread
           /\ encoder' = [encoder EXCEPT ![t] = NoCall]
           /\ UNCHANGED <<meta, current_meta, rvars, cvars, fvars, pc, submitted,
                          most_needed, flushes, created, last_buffer, in_flight, readback,
                          probe_maps, cache_guard>>

\* a flush takes the command-queue mutex when no encoder call holds it
threads_flush == queue_guard = NoThread /\ flush_gpu_command

NextThreads ==
    \/ thread_get_meta
    \/ thread_add
    \/ thread_enqueue
    \/ threads_flush
    \/ set_buffers
    \/ get_command_buffer
    \/ FlushExit

SpecThreads == InitThreads /\ [][NextThreads]_vars

(***************************************************************************)
(* Properties.                                                             *)
(***************************************************************************)
\* words per alignment unit of the meta buffer
AlignWords == min_storage_buffer_offset_alignment \div 4

\* every queued dispatch starts its parameters at an aligned word offset
QueueAligned ==
    \A i \in 1 .. Len(command_queue) : command_queue[i].meta % AlignWords = 0

\* a step of an encoder: it is the only kind of step that grows the meta array
EncoderStep == Len(meta') > Len(meta)

\* what get_meta did in an encoder step: the old words are kept, zeros fill
\* the array up to the aligned offset current_meta, and the encoder's
\* parameters follow from there
PaddedByGetMeta ==
    /\ current_meta' % AlignWords = 0
    /\ current_meta' >= Len(meta)
    /\ current_meta' - Len(meta) < AlignWords
    /\ current_meta' < Len(meta')
    /\ \A k \in 1 .. Len(meta) : meta'[k] = meta[k]
    /\ \A k \in (Len(meta) + 1) .. current_meta' : meta'[k] = 0
    /\ Len(command_queue') > Len(command_queue)
           => command_queue'[Len(command_queue')].meta = current_meta'

\* C1: after any sequence of encoder calls every dispatch in the command
\* queue has a meta offset that is a multiple of
\* min_storage_buffer_offset_alignment / 4 words, and each encoder call found
\* the meta array zero-padded by get_meta up to that offset before it wrote
\* its parameters.
C1_MetaAlignment ==
    [](QueueAligned) /\ [][EncoderStep => PaddedByGetMeta]_vars

\* a second dispatch was queued behind parameters that did not end on an
\* aligned offset: get_meta padded, and the dispatch starts behind the padding
C1_Witness ==
    \E i \in 2 .. Len(command_queue) :
        /\ command_queue[i].meta > 0
        /\ meta[command_queue[i].meta] = 0
        /\ command_queue[i].meta - command_queue[i - 1].meta = AlignWords

\* C2: every dispatch that is ever in the command queue has x, y and z at
\* most 65535, and an enqueue that panics on an extent above 65535 leaves the
\* command queue as it was.
C2_DispatchExtents ==
    /\ [](\A i \in 1 .. Len(command_queue) :
            /\ command_queue[i].x <= 65535
            /\ command_queue[i].y <= 65535
            /\ command_queue[i].z <= 65535)
    /\ [][pc' = "panic_extent" => command_queue' = command_queue]_vars

\* an enqueue with x = 65536 panicked behind a dispatch that stays queued
C2_Witness ==
    /\ pc = "panic_extent"
    /\ Len(command_queue) >= 1
    /\ meta[Len(meta)] = MAX_DISPATCH_SIZE * WORKGROUP_SIZE * 4 + 1

\* the dispatches of the queue that the command buffer cb batches
BatchOf(cb) == (cb.from + 1) .. cb.to
BatchWorkload(cb) ==
    SumSeq([k \in 1 .. (cb.to - cb.from) |-> command_queue[cb.from + k].workload_size])

\* C3: for every command buffer a flush emits, the workload_size of its
\* dispatches (elided copies included) sums to at most MAX_WORKLOAD_SIZE
\* unless the batch is exactly one dispatch, and a dispatch whose own
\* workload is above the cap is alone in its command buffer.
C3_WorkloadBound ==
    \A c \in 1 .. Len(submitted) :
        LET cb == submitted[c] IN
        /\ cb.workload = BatchWorkload(cb)
        /\ cb.workload <= MAX_WORKLOAD_SIZE \/ cb.to - cb.from = 1
        /\ \A k \in BatchOf(cb) :
               command_queue[k].workload_size > MAX_WORKLOAD_SIZE => cb.to - cb.from = 1

\* a flush split three dispatches by workload: two that fit together, then
\* one above the cap on its own
C3_Witness ==
    /\ pc = "finish"
    /\ Len(submitted) = 2
    /\ submitted[1].to - submitted[1].from = 2
    /\ submitted[1].workload = MAX_WORKLOAD_SIZE
    /\ submitted[2].workload > MAX_WORKLOAD_SIZE

\* the positions a command buffer recorded
RecordedPositions(cb) == [k \in 1 .. Len(cb.recorded) |-> cb.recorded[k].pos]
\* a copy that set_buffers elided
ElidedCopy(q) == q.pipeline.kind = "Copy" /\ q.bindgroup.tag = "None"
\* the positions of the batch that are no elided copies, in queue order
RECURSIVE NotElided(_, _)
NotElided(from, to) ==
    IF from >= to THEN <<>>
    ELSE (IF ElidedCopy(command_queue[from + 1]) THEN <<>> ELSE <<from + 1>>)
         \o NotElided(from + 1, to)

\* C4: the slices handed to get_command_buffer are contiguous, not empty,
\* start at the head of the queue and, when the flush is through, cover the
\* queue; each command buffer records exactly the dispatches of its slice
\* that are no elided copies, once each, in queue order, with the extents
\* they were queued with.
C4_ProgramOrder ==
    /\ \A c \in 1 .. Len(submitted) :
          LET cb == submitted[c] IN
          /\ cb.from = (IF c = 1 THEN 0 ELSE submitted[c - 1].to)
          /\ cb.from < cb.to
          /\ cb.to <= Len(command_queue)
          /\ RecordedPositions(cb) = NotElided(cb.from, cb.to)
          /\ \A k \in 1 .. Len(cb.recorded) :
                LET r == cb.recorded[k] IN
                /\ r.x = command_queue[r.pos].x
                /\ r.y = command_queue[r.pos].y
                /\ r.z = command_queue[r.pos].z
    /\ pc = "finish" =>
          /\ Len(submitted) >= 1
          /\ submitted[Len(submitted)].to = Len(command_queue)

\* a flush of three dispatches is through with two command buffers, the
\* second with two recorded dispatches
C4_Witness ==
    /\ pc = "finish"
    /\ Len(command_queue) = 3
    /\ Len(submitted) = 2
    /\ Len(submitted[1].recorded) = 1
    /\ Len(submitted[2].recorded) = 2

\* a flush call has returned
FlushReturned == op = "flush" /\ pc = "idle"

\* C5: after a flush (blocking or async) returned, the command queue is empty
\* and the meta array is truncated, for every queue content at the call.
C5_FlushClears ==
    FlushReturned => (command_queue = <<>> /\ meta = <<>> /\ current_meta = 0)

\* a flush call on a queue without dispatches
EmptyFlushCall == pc = "idle" /\ command_queue = <<>> /\ op' = "flush"

\* C6: a flush of a queue with no dispatches returns at once; it submits
\* nothing, runs no prepare (max_memory_allowed and the buffer-mapping
\* signature stay), leaves the cache and the references alone, and the queue
\* is empty after it.
C6_EmptyFlushNoOp ==
    [][EmptyFlushCall =>
          /\ pc' = "idle"
          /\ command_queue' = <<>>
          /\ submitted' = submitted
          /\ max_memory_allowed' = max_memory_allowed
          /\ mapping' = mapping
          /\ buffers' = buffers
          /\ storage' = storage]_vars

\* a flush of the empty queue returned while the pool holds a free buffer
\* and nothing was ever submitted
C6_Witness ==
    /\ FlushReturned
    /\ flushes = 0
    /\ command_queue = <<>>
    /\ \E b \in BufIds : buffers[b].state = "free"
    /\ max_memory_allowed = 0
    /\ mapping = 0

\* set_buffers has returned to the flush loop
SetBuffersReturned == pc = "get_command_buffer"

\* C10: every call of set_buffers in the flush loop returns with index
\* advanced by at least one dispatch, whichever cap ended the batch; a step
\* of set_buffers goes on or returns, it never fails; so a flush of n
\* dispatches emits at most n command buffers.
C10_PlannerProgress ==
    /\ [](SetBuffersReturned => (index > start_index /\ index <= Len(command_queue)))
    /\ [](Len(submitted) <= Len(command_queue))
    /\ [][pc = "set_buffers" =>
            /\ pc' \in {"set_buffers", "get_command_buffer"}
            /\ index' >= index]_vars

\* a flush of three dispatches, each above the workload cap, is through with
\* three command buffers
C10_Witness ==
    /\ pc = "finish"
    /\ Len(command_queue) = 3
    /\ Len(submitted) = 3
    /\ \A i \in 1 .. 3 : command_queue[i].workload_size > MAX_WORKLOAD_SIZE

\* one iteration of set_buffers that takes the next dispatch into the batch
PlansNext == pc = "set_buffers" /\ index' = index + 1
\* the dispatch it takes, before and after the step
Planned == command_queue[index + 1]
PlannedAfter == command_queue'[index + 1]

InplaceKinds ==
    {"UnaryInplaceContiguous", "BinaryBufferInplace1ContiguousBoth",
     "BinaryBufferInplace2ContiguousBoth"}
\* the input a rewritten dispatch aliases: input 2 for the Inplace2 variant,
\* input 1 for the others
AliasedInput ==
    IF PlannedAfter.pipeline.kind = "BinaryBufferInplace2ContiguousBoth"
    THEN Planned.bindgroup.refs[3] ELSE Planned.bindgroup.refs[2]

\* C7: when set_buffers rewrites a unary or binary dispatch to an Inplace
\* variant, the aliased input reference ends with storage None, and dest (if
\* a caller still holds it) ends with the buffer the bind group was built
\* over for the input, which is the storage the input had when it had one:
\* the storage is moved.
C7_InplaceSoundness ==
    [][(PlansNext /\ PlannedAfter.pipeline.kind \in InplaceKinds) =>
          LET dest == Planned.bindgroup.refs[1]
              bound == PlannedAfter.bindgroup.bufs[1]
          IN /\ Planned.pipeline.kind \notin InplaceKinds
             /\ storage[dest] = None
             /\ storage'[AliasedInput] = None
             /\ bound # None
             /\ storage[AliasedInput] # None => bound = storage[AliasedInput]
             /\ ext[dest] >= 1 => storage'[dest] = bound
             /\ \A r \in Refs \ {dest} : storage'[r] # bound]_vars

\* a binary dispatch was rewritten to the Inplace2 variant and the caller's
\* dest now has the buffer the dispatch binds first
C7_Witness ==
    /\ pc = "get_command_buffer"
    /\ index >= 1
    /\ command_queue[index].pipeline.kind = "BinaryBufferInplace2ContiguousBoth"
    /\ \E r \in Refs : ext[r] = 1 /\ storage[r] = command_queue[index].bindgroup.bufs[1]

\* a queued copy whose input has the bind group as its only holder and is
\* at least as large as dest
CopyCandidate ==
    /\ Planned.pipeline.kind = "Copy"
    /\ StrongCount(Planned.bindgroup.refs[2]) = 1
    /\ BufferSize(Planned.bindgroup.refs[1]) <= BufferSize(Planned.bindgroup.refs[2])
\* the step elides the copy: the input's storage goes to dest, the input is
\* left with None and the dispatch with no bind group
ElidesCopy ==
    /\ PlannedAfter.bindgroup.tag = "None"
    /\ storage'[Planned.bindgroup.refs[2]] = None
    /\ ext[Planned.bindgroup.refs[1]] >= 1 =>
           storage'[Planned.bindgroup.refs[1]] = storage[Planned.bindgroup.refs[2]]
\* no command buffer holds a recorded dispatch for an elided copy
NoElidedRecorded ==
    \A c \in 1 .. Len(submitted) : \A k \in 1 .. Len(submitted[c].recorded) :
        ~ElidedCopy(command_queue[submitted[c].recorded[k].pos])

\* C8 as stated: every queued copy whose input is single-referenced and at
\* least as large as dest is elided at plan time and never recorded.
C8_CopyElision ==
    [](NoElidedRecorded) /\ [][(PlansNext /\ CopyCandidate) => ElidesCopy]_vars

\* C8, amended: a queued copy whose input is flagged inplaceable,
\* single-referenced and at least as large as dest, and whose dest has no
\* storage yet, is elided at plan time and never recorded; any other copy
\* keeps its bind group and is recorded.
C8_CopyElisionAmended ==
    /\ [](NoElidedRecorded)
    /\ [][(PlansNext /\ Planned.pipeline.kind = "Copy") =>
            IF /\ CopyCandidate
               /\ Planned.pipeline.input1_inplaceable
               /\ storage[Planned.bindgroup.refs[1]] = None
            THEN ElidesCopy
            ELSE PlannedAfter.bindgroup.tag = "CachedBindgroup"]_vars

\* a flush is through with an elided copy it did not record, a dispatch
\* behind it that it recorded, and a caller's reference with storage
C8_Witness ==
    /\ pc = "finish"
    /\ Len(command_queue) = 2
    /\ ElidedCopy(command_queue[1])
    /\ Len(submitted) = 1
    /\ RecordedPositions(submitted[1]) = <<2>>
    /\ \E r \in Refs : ext[r] = 1 /\ storage[r] # None

\* a flush has run prepare and is in progress
FlushRunning == pc \in {"set_buffers", "get_command_buffer", "finish"}

\* C9 as stated: after the prepare of any non-empty flush max_memory_allowed
\* is at most 1.25 times the most_needed_storage of that prepare, whatever
\* it was before.
C9_BudgetRecovery ==
    FlushRunning => 4 * max_memory_allowed <= 5 * most_needed

\* the prepare step of a non-empty flush
PrepareStep == pc = "idle" /\ pc' = "set_buffers"

\* C9, amended: with m the most_needed_storage of the prepare expanded by
\* 25%, a non-empty flush sets max_memory_allowed to m when m is above the
\* previous value; otherwise max_memory_allowed does not grow, keeps more
\* than 7/8 of the previous value less one, and falls when m is below the
\* previous value.
C9_BudgetRecoveryAmended ==
    [][PrepareStep =>
          LET m == (most_needed' * 5) \div 4
          IN IF m > max_memory_allowed
             THEN max_memory_allowed' = m
             ELSE /\ max_memory_allowed' <= max_memory_allowed
                  /\ m < max_memory_allowed => max_memory_allowed' < max_memory_allowed
                  /\ 8 * max_memory_allowed' > 7 * max_memory_allowed - 8]_vars

\* a second flush runs with a budget above 1.25 times what its prepare found
C9_Witness ==
    /\ FlushRunning
    /\ flushes = 1
    /\ 4 * max_memory_allowed > 5 * most_needed
    /\ most_needed > 0

\* a step in which an encoder call returned Err
EncoderFailed == op' = "err"

\* C11: an encoder called with a dtype outside {U8, U32, F32} returns an
\* error and leaves the command queue as it was: no dispatch is pushed, and
\* the meta array and the current_meta cursor are as before the call.
C11_UnsupportedDType ==
    [][EncoderFailed =>
          /\ command_queue' = command_queue
          /\ meta' = meta
          /\ current_meta' = current_meta]_vars

\* synchronize or synchronize_async has returned Ok
SynchronizeReturned == op = "synchronize" /\ pc = "idle"

\* C12: when synchronize (or synchronize_async) returns Ok, every command
\* buffer submitted to the device before or during the call has completed,
\* also when the command queue was empty at the call and work of an earlier
\* flush is still in flight.
C12_SynchronizeWaits ==
    SynchronizeReturned => in_flight = 0

\* the command buffer the flush variant m records for the current slice
CommandBufferOf(m) == CommandBuffer(waiting_buffer(m))

Pushed == SubSeq(command_queue', Len(command_queue) + 1, Len(command_queue'))
\* queue_conv2d has returned Ok: the last dispatch pushed is its convolution
Conv2dReturned ==
    /\ op' = "call"
    /\ Len(command_queue') > Len(command_queue)
    /\ command_queue'[Len(command_queue')].pipeline.kind = "Conv2d"
\* the k-th meta word of dispatch d after the step
MetaWordOf(d, k) == meta'[d.meta + k]
\* the thresholds of the pre-copy as the pushed convolution d shows them:
\* c_out is its z extent, i_w and i_h its 6th and 7th meta word
Conv2dLarge(d) == d.z > 32 /\ MetaWordOf(d, 7) >= 64 /\ MetaWordOf(d, 6) >= 64

\* C14: queue_conv2d pushes a strided copy into a newly created buffer
\* reference before the convolution exactly when the innermost input stride
\* is not 1, c_out > 32, i_h >= 64 and i_w >= 64 (and the convolution then
\* reads the new reference with innermost stride 1); in every other case it
\* pushes the convolution alone, bound to the caller's input, and creates no
\* reference.
C14_Conv2dPreCopy ==
    [][Conv2dReturned =>
         LET conv == Pushed[Len(Pushed)]
             copy == Pushed[1]
         IN \/ /\ Len(Pushed) = 2
               /\ copy.pipeline.kind = "CopyStrided"
               /\ MetaWordOf(copy, 9) # 1
               /\ Conv2dLarge(conv)
               /\ Len(created') = Len(created) + 1
               /\ copy.bindgroup.refs[1] = NumRefs + Len(created')
               /\ copy.bindgroup.refs[2] \in Refs
               /\ conv.bindgroup.refs[2] = copy.bindgroup.refs[1]
               /\ conv.pipeline.consts[2] = 1
            \/ /\ Len(Pushed) = 1
               /\ ~(conv.pipeline.consts[2] # 1 /\ Conv2dLarge(conv))
               /\ conv.bindgroup.refs[2] \in Refs
               /\ created' = created]_vars

\* a convolution queued behind its strided copy, reading the reference the
\* call created
C14_Witness ==
    /\ Len(command_queue) = 2
    /\ Len(created) = 1
    /\ command_queue[1].pipeline.kind = "CopyStrided"
    /\ command_queue[2].pipeline.kind = "Conv2d"
    /\ command_queue[2].bindgroup.refs[2] = NumRefs + 1

\* the example's call, made on an empty queue, has returned: the convolution
\* of a [1,3,64,64] F32 input with a [c_out,3,3,3] kernel is the last dispatch
\* of the queue, and the input was the channels-last one (stride
\* [12288,1,192,3]): the convolution shows the innermost stride 3, or a
\* strided copy stands before it
Conv2dExample(c_out) ==
    /\ op = "call"
    /\ Len(command_queue) > 0
    /\ LET conv == command_queue[Len(command_queue)]
       IN /\ conv.pipeline.kind = "Conv2d"
          /\ conv.pipeline.dtype = "F32"
          /\ conv.z = c_out
          /\ meta[conv.meta + 6] = 64
          /\ meta[conv.meta + 7] = 64
          /\ \/ Len(command_queue) = 1 /\ conv.pipeline.consts[2] = 3
             \/ Len(command_queue) = 2 /\ command_queue[1].pipeline.kind = "CopyStrided"
\* the call made on an empty queue has left two dispatches: a strided copy
\* into a new reference of 3*64*64*4 bytes, then the convolution on the
\* contiguous layout of that reference
Conv2dTwoDispatches ==
    /\ Len(command_queue) = 2
    /\ command_queue[1].pipeline.kind = "CopyStrided"
    /\ command_queue[1].bindgroup.refs[1] = NumRefs + Len(created)
    /\ created # <<>>
    /\ created[Len(created)] = 3 * 64 * 64 * 4
    /\ command_queue[2].bindgroup.refs[2] = command_queue[1].bindgroup.refs[1]
    /\ command_queue[2].pipeline.consts[2] = 1
    /\ meta[command_queue[2].meta + 12] = 3 * 64 * 64
    /\ meta[command_queue[2].meta + 13] = 64 * 64
    /\ meta[command_queue[2].meta + 14] = 64

\* C15 as stated: the convolution of input [1,3,64,64], stride
\* [12288,1,192,3], with kernel [16,3,3,3], pad 1, stride 1, dilation 1, F32,
\* leaves two dispatches: a strided copy into a contiguous buffer of
\* 3*64*64*4 bytes, then the convolution on the contiguous layout.
C15_StridedExample ==
    Conv2dExample(16) => Conv2dTwoDispatches

\* C15 amended: with the kernel [16,3,3,3] (c_out = 16, not above 32) the call
\* leaves one dispatch, the convolution of extents (4,4,16) on the caller's
\* buffer with innermost stride 3 and no new reference; with a kernel
\* [33,3,3,3] (c_out above 32) it leaves the two dispatches of the claim.
C15_StridedExampleAmended ==
    /\ Conv2dExample(16)
       => LET conv == command_queue[1]
          IN /\ Len(command_queue) = 1
             /\ created = <<>>
             /\ conv.bindgroup.refs[2] \in Refs
             /\ conv.pipeline.consts[2] = 3
             /\ <<conv.x, conv.y, conv.z>> = <<4, 4, 16>>
    /\ Conv2dExample(33) => Conv2dTwoDispatches

\* the strided call with 33 output channels has left its two dispatches
C15_Witness ==
    /\ Conv2dExample(33)
    /\ created = <<3 * 64 * 64 * 4>>

\* the quotient of a by b, rounded up
CeilDiv(a, b) == IF a % b = 0 THEN a \div b ELSE (a \div b) + 1

ConvertKinds == {"ConvertU32ToU8", "ConvertF32ToU8"}
\* a byte-packed convert has returned: the last dispatch pushed is its own
ConvertReturned ==
    /\ op' = "call"
    /\ Len(command_queue') > Len(command_queue)
    /\ command_queue'[Len(command_queue')].pipeline.kind \in ConvertKinds
\* the two meta words of the convert d: start_offset and size
ConvertSizeOf(d) == MetaWordOf(d, 2)
\* d is the only dispatch pushed and its parameters are the last two words
\* of the meta array
ConvertOneDispatchTwoWords(d) ==
    /\ Len(Pushed) = 1
    /\ Len(meta') = d.meta + 2
    /\ d.meta >= Len(meta)
    /\ MetaWordOf(d, 1) \in {0, 4}

\* C16 as stated: a byte-packed convert over n elements pushes one dispatch of
\* ceil(n/4) workgroups on x and 1 on y and z and writes the two meta words
\* start_offset and size; over 1024 elements the dispatch is (256,1,1).
C16_PackedConvert ==
    [][ConvertReturned =>
         LET d == Pushed[Len(Pushed)]
         IN /\ ConvertOneDispatchTwoWords(d)
            /\ <<d.x, d.y, d.z>> = <<CeilDiv(ConvertSizeOf(d), 4), 1, 1>>
            /\ ConvertSizeOf(d) = 1024 => <<d.x, d.y, d.z>> = <<256, 1, 1>>]_vars

\* C16 amended: the convert hands ceil(n/4) to enqueue as the length, which
\* tiles it by 64: the dispatch has ceil(ceil(n/4)/64) workgroups on x and 1
\* on y and z; over 1024 elements it is (4,1,1).  The two meta words are as
\* stated.
C16_PackedConvertAmended ==
    [][ConvertReturned =>
         LET d == Pushed[Len(Pushed)]
         IN /\ ConvertOneDispatchTwoWords(d)
            /\ <<d.x, d.y, d.z>> = <<CeilDiv(CeilDiv(ConvertSizeOf(d), 4), WORKGROUP_SIZE), 1, 1>>
            /\ ConvertSizeOf(d) = 1024 => <<d.x, d.y, d.z>> = <<4, 1, 1>>]_vars

\* a U32 -> U8 convert over 1024 elements is queued
C16_Witness ==
    \E i \in 1 .. Len(command_queue) :
        /\ command_queue[i].pipeline.kind = "ConvertU32ToU8"
        /\ meta[command_queue[i].meta + 2] = 1024
        /\ command_queue[i].x = 4

\* an element-wise encoder has returned: the dispatch pushed is tiled by
\* enqueue_big over the length in its first meta word
EnqueueBigReturned ==
    /\ op' = "call"
    /\ Len(command_queue') = Len(command_queue) + 1
    /\ command_queue'[Len(command_queue')].pipeline.kind = "UnaryFromBufferContiguous"

\* C17: enqueue_big for a length len pushes a dispatch of extents (x, y, 1)
\* with total_wg = ceil(len / 64), x = min(total_wg, 65535) and
\* y = ceil(total_wg / 65535); len = 65535*64 gives (65535,1,1) and
\* len = 65535*64 + 1 gives (65535,2,1).
C17_EnqueueBigExtents ==
    [][EnqueueBigReturned =>
         LET d == Pushed[1]
             len == MetaWordOf(d, 1)
             total_wg == CeilDiv(len, 64)
         IN /\ d.x = (IF total_wg < 65535 THEN total_wg ELSE 65535)
            /\ d.y = CeilDiv(total_wg, 65535)
            /\ d.z = 1
            /\ len = 65535 * 64 => <<d.x, d.y, d.z>> = <<65535, 1, 1>>
            /\ len = 65535 * 64 + 1 => <<d.x, d.y, d.z>> = <<65535, 2, 1>>]_vars

\* dispatches of both lengths of the example are queued
C17_Witness ==
    /\ Len(command_queue) = 2
    /\ meta[command_queue[1].meta + 1] = 65535 * 64
    /\ <<command_queue[1].x, command_queue[1].y>> = <<65535, 1>>
    /\ meta[command_queue[2].meta + 1] = 65535 * 64 + 1
    /\ <<command_queue[2].x, command_queue[2].y>> = <<65535, 2>>

\* the problem size of the queued dispatch d of an element-wise encoder (its
\* length word) or of a byte-packed convert (its size word)
ProblemSizeOf(d) ==
    IF d.pipeline.kind \in ConvertKinds THEN meta[d.meta + 2] ELSE meta[d.meta + 1]

\* C18: an encoder whose problem size is 0 (enqueue or enqueue_big called
\* with length 0) appends no dispatch: no queued dispatch of these encoders
\* has problem size 0, and none has an extent of 0 workgroups.
C18_ZeroSizedSkipped ==
    \A i \in 1 .. Len(command_queue) :
        LET d == command_queue[i]
        IN d.pipeline.kind \in ConvertKinds \cup {"UnaryFromBufferContiguous"}
           => /\ ProblemSizeOf(d) # 0
              /\ d.x > 0 /\ d.y > 0 /\ d.z > 0

\* set_buffers has returned a batch on which neither the metadata cap nor
\* the cache limit has fired
BatchWithoutCaps ==
    /\ pc = "get_command_buffer"
    /\ ~cache_limit
    /\ ~MetaBreak(last_meta, fl_current_meta)
\* the workload of the dispatches at positions from + 1 .. to of the queue
WorkloadOfSlice(from, to) ==
    SumSeq([k \in 1 .. (to - from) |-> command_queue[from + k].workload_size])
\* every queued dispatch has the workload w
EqualWorkloads(w) ==
    \A i \in 1 .. Len(command_queue) : command_queue[i].workload_size = w
\* the smaller of two numbers
Smaller(a, b) == IF a < b THEN a ELSE b

\* C19: when neither the metadata cap nor the cache limit fires, a batch ends
\* only at the end of the queue or at the first dispatch whose workload would
\* push the running sum above MAX_WORKLOAD_SIZE, and a batch of more than one
\* dispatch stays within MAX_WORKLOAD_SIZE; so, in a queue of dispatches of
\* equal workload w with k = floor(MAX_WORKLOAD_SIZE / w) >= 1, where every
\* earlier batch of the flush has k dispatches, the batch has k dispatches or
\* is the shorter last one.
C19_GreedyWorkloadSplit ==
    BatchWithoutCaps =>
        /\ \/ index = Len(command_queue)
           \/ WorkloadOfSlice(start_index, index + 1) > MAX_WORKLOAD_SIZE
        /\ index - start_index > 1
              => WorkloadOfSlice(start_index, index) <= MAX_WORKLOAD_SIZE
        /\ index > start_index
        /\ \A w \in {command_queue[1].workload_size} :
              LET k == MAX_WORKLOAD_SIZE \div w
              IN (/\ EqualWorkloads(w)
                  /\ k >= 1
                  /\ \A c \in 1 .. Len(submitted) : submitted[c].to - submitted[c].from = k)
                 => /\ start_index = k * Len(submitted)
                    /\ index - start_index = Smaller(k, Len(command_queue) - start_index)

\* three dispatches of half the cap each: the first command buffer took two
\* of them and the second batch is the third alone
C19_Witness ==
    /\ BatchWithoutCaps
    /\ Len(command_queue) = 3
    /\ EqualWorkloads(MAX_WORKLOAD_SIZE \div 2)
    /\ Len(submitted) = 1
    /\ submitted[1].to - submitted[1].from = 2
    /\ start_index = 2
    /\ index = 3

\* the bytes of the meta slice the flush loop hands to get_command_buffer
UploadBytes == (last_meta_index - fl_current_meta) * 4

\* C20: get_command_buffer accepts a meta slice of exactly
\* META_BUFFER_SIZE - 256 bytes, and set_buffers never returns a batch whose
\* slice is larger: such a batch is split, so that get_command_buffer is not
\* reached with it and does not abort.
C20_MetaUploadBoundary ==
    /\ pc = "get_command_buffer" => UploadBytes <= META_BUFFER_SIZE - 256
    /\ pc # "panic_meta"

\* the command buffers submitted by the running flush cover the queue: their
\* slices follow one another from the first dispatch to the last
QueueSubmitted ==
    /\ submitted # <<>>
    /\ submitted[1].from = 0
    /\ submitted[Len(submitted)].to = Len(command_queue)
    /\ \A c \in 1 .. Len(submitted) - 1 : submitted[c].to = submitted[c + 1].from
\* the step in which read_data_from_gpu_async gets behind its flush
ReadFlushed == pc # "read_data" /\ pc' = "read_data"
\* the step in which read_data_from_gpu_async returns the data
ReadReturned == pc = "read_data" /\ pc' = "idle"
\* the step in which read_data_from_gpu_async panics
ReadPanicked == pc = "read_data" /\ pc' = "panic_read"

\* C21: read_data_from_gpu first flushes: the call gets to the readback copy
\* only with every dispatch queued before it submitted in a command buffer
\* and the queue cleared; when it returns, the bytes are those of the buffer
\* that backs the reference and nothing is in flight any more (the staging
\* map has completed); a reference without storage after the flush ends in
\* the panic, never in a returned result.
C21_ReadAfterFlush ==
    [][/\ ReadFlushed => (IF pc = "finish" THEN QueueSubmitted ELSE command_queue = <<>>)
       /\ pc = "read_data" => command_queue = <<>> /\ pc' \in {"read_data", "idle", "panic_read"}
       /\ ReadReturned =>
             /\ ext[readback'.ref] >= 1
             /\ storage[readback'.ref] # None
             /\ readback'.buffer = storage[readback'.ref]
             /\ buffers[readback'.buffer].state = "used"
             /\ in_flight' = 0
       /\ ReadPanicked =>
             /\ \E r \in Refs : ext[r] >= 1 /\ storage[r] = None
             /\ readback' = readback]_vars

\* a read has returned the bytes of a buffer that a dispatch of the flush of
\* the same call has written
C21_Witness ==
    /\ pc = "idle"
    /\ op = "read"
    /\ flushes = 1
    /\ readback.ref > 1
    /\ in_flight = 0

\* C22: in every state reached by encoder calls and flushes, two distinct
\* buffer references never hold the same CachedBuffer in their storage slot:
\* an in-place rewrite or copy elision hands the storage from the input to
\* dest and empties the input's slot in the same step of set_buffers.
C22_NoStorageSharing ==
    \A r1, r2 \in Refs :
        (r1 # r2 /\ storage[r1] # None) => storage[r1] # storage[r2]

\* the planner has handed a buffer from an input to a dest: a caller's
\* reference holds the buffer that was allocated for another reference, which
\* is left without storage
C22_Witness ==
    /\ pc \in {"set_buffers", "get_command_buffer"}
    /\ \E dest, input \in Refs :
          /\ dest # input
          /\ ext[dest] >= 1
          /\ storage[dest] = input
          /\ storage[input] = None
          /\ \E i \in 1 .. index :
                \/ command_queue[i].pipeline.kind \in InplaceKinds
                \/ ElidedCopy(command_queue[i])

\* the dispatch q is ready for the compute pass
Executable(q) == q.bindgroup.tag = "CachedBindgroup" /\ q.pipeline_cached
\* the dispatch q is as the encoder queued it
Untouched(q) ==
    /\ q.bindgroup.tag = "BindgroupReference"
    /\ ~q.pipeline_cached
    /\ q.pipeline.kind \notin InplaceKinds

\* C23: a dispatch is recorded into a command buffer only with a cached bind
\* group and its pipeline; when set_buffers has returned, every dispatch of
\* the batch [start_index, index) is executable or an elided copy (bind
\* group None), and every dispatch from index on is still the bind-group
\* reference the encoder queued, with pipeline_cached empty.
C23_PlannedBeforeRecorded ==
    /\ pc = "get_command_buffer" =>
          /\ \A i \in (start_index + 1) .. index :
                \/ Executable(command_queue[i])
                \/ command_queue[i].bindgroup.tag = "None"
          /\ \A i \in (index + 1) .. Len(command_queue) : Untouched(command_queue[i])
          /\ LET cb == CommandBuffer(None)
             IN Len(cb.recorded) =
                   Cardinality({i \in (start_index + 1) .. index :
                                   command_queue[i].bindgroup.tag # "None"})
    /\ \A c \in 1 .. Len(submitted) : \A k \in 1 .. Len(submitted[c].recorded) :
          Executable(command_queue[submitted[c].recorded[k].pos])

\* set_buffers has returned the second batch of a flush, of one executable
\* dispatch, with a dispatch behind it that is still as queued
C23_Witness ==
    /\ pc = "get_command_buffer"
    /\ start_index > 0
    /\ index = start_index + 1
    /\ index < Len(command_queue)
    /\ Executable(command_queue[index])
    /\ Untouched(command_queue[index + 1])

\* Arc::strong_count of reference r, counted over the callers' handles and
\* the bind-group references of the queue
HoldersOf(r) ==
    ext[r] + Cardinality({<<i, j>> \in (1 .. Len(command_queue)) \X (1 .. 3) :
                             /\ command_queue[i].bindgroup.tag = "BindgroupReference"
                             /\ j <= Len(command_queue[i].bindgroup.refs)
                             /\ command_queue[i].bindgroup.refs[j] = r})

\* C24: set_buffers rewrites a UnaryFromBufferContiguous dispatch over
\* (dest, input) to UnaryInplaceContiguous with an arity-0 bind group over
\* the input's buffer exactly when input1 is flagged inplaceable, the bind
\* group holds the only strong reference of the input, dest.size <=
\* input.size and dest has no storage; the input is then left without
\* storage and a dest that is still held gets the buffer.  In every other
\* case the pipeline and the arity of the bind group stay as queued.  (A
\* tensor of 1,000,000 elements is dispatched as (15625,1,1).)
C24_UnaryInplace ==
    [][(PlansNext /\ Planned.pipeline.kind = "UnaryFromBufferContiguous") =>
          LET dest == Planned.bindgroup.refs[1]
              input == Planned.bindgroup.refs[2]
          IN /\ <<enqueue_big_x(1000000), enqueue_big_y(1000000)>> = <<15625, 1>>
             /\ <<PlannedAfter.x, PlannedAfter.y, PlannedAfter.z>>
                   = <<Planned.x, Planned.y, Planned.z>>
             /\ IF /\ Planned.pipeline.input1_inplaceable
                   /\ HoldersOf(input) = 1
                   /\ BufferSize(dest) <= BufferSize(input)
                   /\ storage[dest] = None
                THEN /\ PlannedAfter.pipeline.kind = "UnaryInplaceContiguous"
                     /\ Len(PlannedAfter.bindgroup.bufs) = 1
                     /\ storage[input] # None => PlannedAfter.bindgroup.bufs[1] = storage[input]
                     /\ storage'[input] = None
                     /\ ext[dest] >= 1 => storage'[dest] = PlannedAfter.bindgroup.bufs[1]
                ELSE /\ PlannedAfter.pipeline.kind = "UnaryFromBufferContiguous"
                     /\ Len(PlannedAfter.bindgroup.bufs) = 2]_vars

\* a unary dispatch whose input had storage was rewritten: the caller's dest
\* now holds the input's buffer and the dispatch binds it alone
C24_Witness ==
    /\ pc = "get_command_buffer"
    /\ index >= 1
    /\ command_queue[index].pipeline.kind = "UnaryInplaceContiguous"
    /\ command_queue[index].bindgroup.bufs = <<1>>
    /\ \E dest \in Refs \ {1} : ext[dest] = 1 /\ storage[dest] = 1
    /\ storage[1] = None

\* input 2 of the binary dispatch that set_buffers takes next can be reused
\* for dest: it is flagged inplaceable, the bind group holds its only strong
\* reference, dest fits into it and dest has no storage
Input2Reusable ==
    /\ Planned.pipeline.input2_inplaceable
    /\ HoldersOf(Planned.bindgroup.refs[3]) = 1
    /\ BufferSize(Planned.bindgroup.refs[1]) <= BufferSize(Planned.bindgroup.refs[3])
    /\ storage[Planned.bindgroup.refs[1]] = None

\* C25: when set_buffers does not apply the input-1 rewrite to a
\* BinaryBufferFromBufferContiguousBoth dispatch and input 2 can be reused,
\* the dispatch is rewritten to BinaryBufferInplace2ContiguousBoth with the
\* arity-1 bind group (input2, input1): the in-place input is bound first.
C25_BinaryFallback ==
    [][(/\ PlansNext
        /\ Planned.pipeline.kind = "BinaryBufferFromBufferContiguousBoth"
        /\ PlannedAfter.pipeline.kind # "BinaryBufferInplace1ContiguousBoth"
        /\ Input2Reusable)
       => /\ PlannedAfter.pipeline.kind = "BinaryBufferInplace2ContiguousBoth"
          /\ Len(PlannedAfter.bindgroup.bufs) = 2
          /\ storage'[Planned.bindgroup.refs[3]] = None]_vars

\* set_buffers applies an in-place rewrite or a copy elision to the dispatch
\* it takes next
AliasesNext ==
    /\ PlansNext
    /\ \/ PlannedAfter.pipeline.kind \in InplaceKinds
       \/ ElidedCopy(PlannedAfter)
\* holders of reference r after the step
HoldersAfter(r) ==
    ext'[r] + Cardinality({<<i, j>> \in (1 .. Len(command_queue')) \X (1 .. 3) :
                              /\ command_queue'[i].bindgroup.tag = "BindgroupReference"
                              /\ j <= Len(command_queue'[i].bindgroup.refs)
                              /\ command_queue'[i].bindgroup.refs[j] = r})

\* C26: set_buffers applies an in-place rewrite or copy elision only when
\* nobody else holds the input: no caller, no other dispatch of the queue and
\* no other binding of the same dispatch references it.  After the step the
\* input has no storage and no holder at all, so that no dispatch planned
\* later can bind it.
C26_AliasingSafe ==
    [][AliasesNext =>
          /\ ext[AliasedInput] = 0
          /\ \A i \in 1 .. Len(command_queue) :
                i # index + 1 =>
                   \A j \in 1 .. Len(command_queue[i].bindgroup.refs) :
                      command_queue[i].bindgroup.refs[j] # AliasedInput
          /\ Occurrences(Planned.bindgroup.refs, AliasedInput) = 1
          /\ storage'[AliasedInput] = None
          /\ HoldersAfter(AliasedInput) = 0]_vars

\* the first dispatch of a queue of two was rewritten in place and the
\* second is still to be planned: it binds other references than the input
\* that lost its storage
C26_Witness ==
    /\ pc = "set_buffers"
    /\ index = 1
    /\ Len(command_queue) = 2
    /\ command_queue[1].pipeline.kind \in InplaceKinds
    /\ \E r \in Refs :
          /\ ext[r] = 0
          /\ storage[r] = None
          /\ \E d \in Refs : storage[d] = r
          /\ Occurrences(command_queue[2].bindgroup.refs, r) = 0

\* the allocation simulation of prepare's second pass with the maximum taken
\* at every point: after each addition of a size, not only at a release
RECURSIVE PeakOfPass(_, _, _, _, _, _)
PeakOfPass(queue, st, ref, bs, seen, acc) ==
    IF bs = <<>> THEN acc.peak
    ELSE LET i == Head(bs)[1]
             r == Head(bs)[2]
             grown == IF r \notin seen /\ st[r] = None
                      THEN acc.total + BufferSize(r) ELSE acc.total
             released == buffers_used_at(queue, r) <= i /\ ~ref[r]
         IN PeakOfPass(queue, st, ref, Tail(bs), seen \cup {r},
                [total |-> IF released THEN grown - BufferSize(r) ELSE grown,
                 peak |-> IF grown > acc.peak THEN grown ELSE acc.peak])
\* the largest value total_used_storage takes in the prepare of the queue,
\* starting from the storage in use
SimulatedPeak ==
    LET used0 == buffer_memory(buffers) - buffer_memory_free(buffers)
    IN PeakOfPass(command_queue, storage, referenced, Bindings(command_queue, 1), {},
                  [total |-> used0, peak |-> used0])

\* C27: the most_needed_storage of prepare (before the headroom) is the
\* largest value the simulated total_used_storage reaches at any point of
\* the second pass, from the storage in use on: also where the peak is
\* reached by buffers that are never released inside the queue
\* (is_referenced_by_storage) or stands after the last dispatch.
C27_MostNeededIsPeak ==
    [][PrepareStep => most_needed' = SimulatedPeak]_vars

\* most_needed_storage of the prepare step, expanded by 25%
Expanded == (most_needed' * 5) \div 4

\* C28 as stated: with m the expanded most_needed_storage and max the budget
\* before the call, prepare sets max_memory_allowed to m if m > max and to
\* (7 * max + m) / 8 otherwise.
C28_BudgetUpdate ==
    [][PrepareStep =>
          max_memory_allowed' =
             (IF Expanded > max_memory_allowed THEN Expanded
              ELSE (7 * max_memory_allowed + Expanded) \div 8)]_vars

\* how often prepare's second pass subtracts the size of reference r: once
\* for every binding it visits at or after the last use of r, unless r is
\* referenced by a storage
SubtractionsOf(r) ==
    IF referenced[r] THEN 0
    ELSE Cardinality({k \in 1 .. Len(Bindings(command_queue, 1)) :
                         /\ Bindings(command_queue, 1)[k][2] = r
                         /\ buffers_used_at(command_queue, r)
                               <= Bindings(command_queue, 1)[k][1]})

\* C29: in the allocation simulation of prepare every buffer reference is
\* subtracted at most once, also when it occupies several bindings of one
\* dispatch, and total_used_storage never drops below zero: the prepare of
\* the queue, whenever a flush may start, runs without unsigned underflow.
C29_NoUnderflow ==
    /\ pc = "idle" =>
          /\ \A r \in Refs : SubtractionsOf(r) <= 1
          /\ ~most_needed_storage(command_queue, storage, referenced, buffers).underflow
    /\ pc # "panic_prepare"

\* C30: when prepare returns, max_memory_allowed is at least the expanded need
\* (most_needed_storage * 5) / 4 of the batch being flushed.
C30_BudgetCoversNeed ==
    [][PrepareStep => max_memory_allowed' >= Expanded]_vars

\* consecutive dispatches of the queue lie at most 64 meta words apart
MetaGapsWithin64 ==
    \A k \in 1 .. Len(command_queue) - 1 :
        command_queue[k + 1].meta - command_queue[k].meta <= 256 \div 4

\* C31: the metadata cap of set_buffers protects get_command_buffer: with a
\* queue whose consecutive dispatches lie at most 64 meta words apart, no
\* flush reaches the fatal checks of get_command_buffer; every slice handed
\* to it has bytes + 256 <= META_BUFFER_SIZE and every recorded dispatch has
\* a dynamic offset below META_BUFFER_SIZE - 256.
C31_MetaCapProtects ==
    MetaGapsWithin64 =>
        /\ pc # "panic_meta"
        /\ pc = "get_command_buffer" => ~MetaTooBig(CommandBuffer(waiting_buffer(mode)))

\* the number of meta words the encoder of dispatch q added after get_meta
EncoderWords(q) ==
    CASE q.pipeline.kind = "Conv1d" -> Len(conv1d_meta(Conv1dParams))
      [] q.pipeline.kind \in {"ConvertU32ToU8", "ConvertF32ToU8"} -> 2
      [] OTHER -> 1

\* the dispatches get_command_buffer records from the slice it is handed
RecordedInSlice ==
    {pos \in (start_index + 1) .. index : IsRecorded(command_queue[pos])}

\* C32: for every dispatch recorded in a command buffer of a flush, its meta
\* offset is not below the current_meta of that command buffer, its dynamic
\* offset (meta - current_meta) * 4 is a multiple of
\* min_storage_buffer_offset_alignment, and the meta words its encoder wrote
\* lie inside the uploaded slice meta[current_meta .. min(last_meta + 64, len)].
C32_DynamicOffsetsValid ==
    pc = "get_command_buffer" =>
        \A pos \in RecordedInSlice :
            LET q == command_queue[pos]
            IN /\ q.meta >= fl_current_meta
               /\ ((q.meta - fl_current_meta) * 4) % min_storage_buffer_offset_alignment = 0
               /\ q.meta + EncoderWords(q) <= last_meta_index

\* the second command buffer of a flush is about to be built and records a
\* dispatch whose parameters lie behind the start of the uploaded slice
C32_Witness ==
    /\ pc = "get_command_buffer"
    /\ Len(submitted) = 1
    /\ fl_current_meta > 0
    /\ \E pos \in RecordedInSlice : command_queue[pos].meta > fl_current_meta

\* What one iteration of the loop of set_buffers does with the cache mutex
\* for the dispatch q it takes into the batch, in program order.  The guard
\* is taken at the head of the iteration (mod.rs:497).  An elided copy swaps
\* the storage slots at once (mod.rs:626-636) and sets the bind group to None
\* (mod.rs:711), which drops the handles of the old bind-group reference; the
\* guard lives until the end of the iteration.  Every other dispatch gets its
\* bind group from the cache, then drop(cache) (mod.rs:695), then the
\* assignment of the cached bind group (mod.rs:696), which drops the handles
\* of the bind-group reference, then the delayed swap of a unary or binary
\* rewrite (mod.rs:697-707).
set_buffers_cache_events(q) ==
    IF optimize_copy_inplace(q)
    THEN <<"lock", "swap", "drop_references", "unlock">>
    ELSE IF AliasOf(q) # <<>>
    THEN <<"lock", "get_bind_group", "unlock", "drop_references", "swap">>
    ELSE <<"lock", "get_bind_group", "unlock", "drop_references">>

\* the cache mutex is held when the k-th event of es happens
CacheHeldAt(es, k) ==
    Cardinality({j \in 1 .. k - 1 : es[j] = "lock"})
        > Cardinality({j \in 1 .. k - 1 : es[j] = "unlock"})

\* C33: in set_buffers the cache mutex is released before the storage slots
\* are swapped and before the handles of the dispatch's old bind-group
\* reference are dropped, for unary, binary and copy rewrites alike: neither
\* happens while the mutex is held.
C33_CacheReleasedBeforeSwap ==
    [][PlansNext =>
          LET es == set_buffers_cache_events(Planned)
          IN \A k \in 1 .. Len(es) :
                 es[k] \in {"swap", "drop_references"} => ~CacheHeldAt(es, k)]_vars

\* queue_conv2d holds the cache mutex and its strided copy waits in get_meta
\* for the command-queue mutex, which the running flush holds
Conv2dWaitsForQueue == cache_guard = "queue_conv2d" /\ pc # "idle"
\* the flush holds the command-queue mutex and its next step waits for the
\* cache mutex
FlushWaitsForCache == pc \in {"set_buffers", "finish"} /\ cache_guard # "free"

\* C34: the command-queue mutex and the cache mutex are taken in one order:
\* a thread in queue_conv2d on the pre-copy path and a thread in a flush
\* never wait for each other's mutex.
C34_NoLockCycle == ~(Conv2dWaitsForQueue /\ FlushWaitsForCache)

\* the meta words the encoder call of dispatch d added
WordsOfDispatch(d) ==
    IF d.pipeline.kind = "Conv1d" THEN conv1d_meta(Conv1dParams)
    ELSE <<0, CHOOSE size \in ThreadSizes : (size + 3) \div 4 = d.workload_size>>

\* C35: encoder calls are serialized by the command-queue mutex.  A thread
\* is inside an encoder call, between get_meta and the push of its dispatch,
\* only while it holds the guard; so, however the calls of the threads
\* interleave, the meta offset stored in each dispatch is the start of exactly
\* the words its own call added, and the regions of successive dispatches do
\* not overlap.
C35_EncodersSerialized ==
    /\ \A t \in Threads : encoder[t].kind # "none" => queue_guard = t
    /\ \A k \in 1 .. Len(command_queue) :
          LET d == command_queue[k]
              w == WordsOfDispatch(d)
          IN /\ d.meta + Len(w) <= Len(meta)
             /\ SubSeq(meta, d.meta + 1, d.meta + Len(w)) = w
             /\ k < Len(command_queue) => d.meta + Len(w) <= command_queue[k + 1].meta

\* a convert is queued and a thread is in the middle of the meta.add calls
\* of a queue_conv1d
C35_Witness ==
    /\ Len(command_queue) = 1
    /\ command_queue[1].pipeline.kind \in ConvertKinds
    /\ \E t \in Threads : encoder[t].kind = "Conv1d" /\ Len(encoder[t].words) = 5

\* C36: during one call of synchronize or synchronize_async, the flush it
\* runs included, the staging probe buffer is mapped at most once, however
\* many command buffers the flush emits.
C36_ProbeMappedOnce ==
    [][(mode \in SyncModes) => (probe_maps' <= 1)]_vars

OutBelowPadding(out, p) == out >= 0 /\ out < p.output_padding

\* C38: queue_conv1d_transpose called with l_out smaller than output_padding,
\* and queue_conv2d_transpose called with out_w or out_h smaller than
\* output_padding, return an error and leave the command queue as it was.
C38_TransposeValidated ==
    [][/\ \A p \in ConvTranspose1dParams :
            (OutBelowPadding(l_out_transpose(p), p) /\ queue_conv1d_transpose(p))
                => (op' = "err" /\ pc' = pc /\ command_queue' = command_queue)
       /\ \A p \in ConvTranspose2dParams :
            (/\ \/ OutBelowPadding(out_w_transpose(p), p)
                \/ OutBelowPadding(out_h_transpose(p), p)
             /\ queue_conv2d_transpose(p))
                => (op' = "err" /\ pc' = pc /\ command_queue' = command_queue)]_vars

\* ceil(length / 64) for a u32 length, the upper half of u32 in its written
\* form
WorkgroupsNeeded(length) ==
    IF length >= 0 THEN CeilDiv(length, WORKGROUP_SIZE)
    ELSE (65536 \div WORKGROUP_SIZE) * 65536 + CeilDiv(length, WORKGROUP_SIZE)

\* the element-wise encoder (one meta word, tiled by enqueue_big) and
\* queue_convert_u32_to_f32 (four meta words, tiled by enqueue) have been
\* called with the length
EnqueueBigCalled(length) ==
    /\ op' = "call"
    /\ Len(meta') = get_meta_offset + 1
    /\ meta'[get_meta_offset + 1] = length
EnqueueCalled(length) ==
    /\ op' = "call"
    /\ Len(meta') = get_meta_offset + 4
    /\ meta'[get_meta_offset + 2] = length

\* C40: for every u32 length enqueue_big pushes a dispatch of extents
\* x <= 65535 and y <= 65535 with x * y * 64 >= length, that is
\* x * y >= ceil(length / 64); enqueue pushes a dispatch for a length up to
\* 65535 * 64 and aborts on the extent for every length above.
C40_GridCoversEveryLength ==
    [][\A length \in WideLengths :
          /\ EnqueueBigCalled(length)
                => /\ Len(command_queue') = Len(command_queue) + 1
                   /\ LET d == command_queue'[Len(command_queue')]
                      IN /\ d.x <= 65535
                         /\ d.y <= 65535
                         /\ d.x * d.y >= WorkgroupsNeeded(length)
          /\ EnqueueCalled(length)
                => IF length >= 0 /\ length <= 65535 * 64
                   THEN Len(command_queue') = Len(command_queue) + 1
                   ELSE /\ pc' = "panic_extent"
                        /\ command_queue' = command_queue]_vars

\* set_buffers has planned the dispatch at position index + 1
DispatchPlanned == pc = "set_buffers" /\ index' = index + 1

\* C39: a buffer reference that is the dest of a dispatch of the flush and
\* that a caller still holds has storage once set_buffers has planned the
\* dispatch, executed, rewritten in place or elided, and keeps it until the
\* flush and the call that ran it return; a read of it after the flush finds
\* a buffer.
C39_FlushedDestBacked ==
    [][/\ DispatchPlanned
            => LET dest == command_queue[index + 1].bindgroup.refs[1]
               IN ext[dest] >= 1 => storage'[dest] # None
       /\ \A r \in Refs :
            (pc # "idle" /\ ext[r] >= 1 /\ storage[r] # None) => storage'[r] # None]_vars

====
